---- MODULE Spec2Model ----
(***************************************************************************)
(* A model of the BumbleBase storage engine: the extendible-hash index,    *)
(* the B+-tree index, the transaction manager with its waits-for graph,    *)
(* and the recovery manager.  Each subsystem has its own specification     *)
(* (SpecHash, SpecBTree, SpecLock, SpecRec) over its own variables.        *)
(***************************************************************************)
EXTENDS Integers, Sequences, FiniteSets, TLC, Bags

VARIABLES
    table,      \* hash index: [depth, buckets, pages]; pages[pn+1] is a bucket page
    hExpect,    \* history: key -> value an Insert/Update reported stored (0 = none)
    hPure,      \* history: only Inserts of pairwise distinct keys so far
    hLast,      \* history: the last hash operation and its outcome
    hStatus,    \* "ok", or "diverged" once Split recursed without end
    hOps,       \* number of hash operations done
    bt,         \* B+-tree index: [rootPN, pages]; pages[pn+1] is a node page
    bExpect,    \* history: key -> value the tree was told to hold (0 = none)
    bPure,      \* history: only inserts of pairwise distinct keys so far
    bLast,      \* history: the last B+-tree operation and its outcome
    bOps,       \* number of B+-tree operations done
    transactions,   \* transaction manager: the ids in the transaction table
    resources,      \* resources[t][k]: the mode t has recorded for key k ("none")
    edges,          \* waits-for graph: the sequence of edges <<from, to>>
    lmTable,        \* lock manager: lmTable[k][t] is the mode t holds k in ("none")
    pc,             \* where each client's thread is inside Lock ("idle" outside)
    req,            \* the request of the Lock call in progress
    myEdges,        \* the edges a Lock call in progress has added (removed on return)
    hist,           \* history: the Lock calls each client has completed
    rlog,           \* the log file: the sequence of records written (every write is synced)
    dbMem,          \* the table as the running process sees it (key -> value, 0: absent)
    dbDisk,         \* the table in the files of the database folder
    snapshot,       \* the recovery folder: whether it exists, and the table copied into it
    txStack,        \* recovery manager: the log stack of each transaction (<<>>: no entry)
    rpc,            \* what the process is doing (running, in Checkpoint, crashed, in Recover)
    rec,            \* Recover in progress: logs read, position, undo set
    rb,             \* Rollback in progress: transaction, its stack, position
    editBuild,      \* which of the repository's two copies of RecoveryManager.Edit runs
    crashLog,       \* history: the log file at the last crash
    crashes,        \* number of crashes so far
    txPre,          \* history: keys each transaction edited, their values before
    rLast,          \* history: the transaction whose Rollback has just returned (0: none)
    pager,          \* pager: [frames, freeList, unpinnedList, pinnedList, pageTable, nPages, ptMtx]
    file,           \* the backing file: [len, data]; data[pn] is the content of page pn
    pgExpect,       \* history: page number -> the content its holders last gave it
    pLast,          \* history: the last pager operation and its outcome
    pOps,           \* number of pager operations done
    wLast,          \* history: the last logging call, its I/O outcome, the error returned
    jLeft,          \* join: the left table, key -> value (0: no entry)
    jRight,         \* join: the right table
    jRes,           \* join: the outcome of Join and the pairs it emitted
    hcW,            \* concurrent hash index: the thread that runs Insert
    hcR,            \* concurrent hash index: the thread that runs Find, Update, Delete
    hcStored,       \* keys a returned Insert has stored and no Delete has removed
    bcW,            \* concurrent B+-tree: the thread that runs Insert
    bcR,            \* concurrent B+-tree: the last read of the other thread
    pins,           \* pin ledger: page number -> pin count
    pinBase,        \* history: the pin counts when the running operation was called
    pinPc,          \* pin ledger: the running operation, its position, its outcome
    defers,         \* pin ledger: pages whose Put the running call chain has deferred
    probes,         \* pin ledger: the bucket pairs held by running probe goroutines
    pinOps,         \* pin ledger: number of operations called
    gjCtx,          \* join goroutines: the group's context, "live" or "cancelled"
    gjChan,         \* join goroutines: number of results in the results channel
    gjProbe,        \* join goroutines: each probe's position, results left, outcome
    nBefore         \* history: the pager's nPages before its last operation

hashVars == <<table, hExpect, hPure, hLast, hStatus, hOps>>

btreeVars == <<bt, bExpect, bPure, bLast, bOps>>

lockVars == <<transactions, resources, edges, lmTable, pc, req, myEdges, hist>>

recVars == <<rlog, dbMem, dbDisk, snapshot, txStack, rpc, rec, rb, editBuild,
             crashLog, crashes, txPre, rLast>>

pagerVars == <<pager, file, pgExpect, pLast, pOps>>

ioVars == <<wLast>>

joinVars == <<jLeft, jRight, jRes>>

hcVars == <<hcW, hcR, hcStored>>

bcVars == <<bcW, bcR>>

pinVars == <<pins, pinBase, pinPc, defers, probes, pinOps>>

gjVars == <<gjCtx, gjChan, gjProbe>>

poVars == <<nBefore>>

vars == <<hashVars, btreeVars, lockVars, recVars, pagerVars, ioVars, joinVars, hcVars, bcVars,
          pinVars, gjVars, poVars>>

(***************************************************************************)
(* Bounds of the model.                                                    *)
(***************************************************************************)
MaxHKey == 4        \* hash-index keys are 0..MaxHKey
MaxVal == 2         \* values are 1..MaxVal
MaxDepth == 4       \* a stand-alone ExtendTable stops at this global depth
MaxHOps == 4        \* hash operations per run
BUCKETSIZE == 2     \* cells per bucket (scaled down from one page's worth)

MaxBKey == 4        \* B+-tree keys are 1..MaxBKey
MaxBOps == 4        \* B+-tree operations per run
MaxSteps == 4       \* B+-tree cursor: StepForward calls looked at after TableStart
ENTRIES_PER_LEAF_NODE == 2  \* cells per leaf (scaled down from one page's worth)
KEYS_PER_INTERNAL_NODE == 3 \* keys per internal node (scaled down, its own constant)

MaxTx == 2          \* clients (transactions) are 1..MaxTx
MaxLKey == 2        \* lockable keys are 1..MaxLKey
MaxTxLocks == 2     \* Lock calls per client
MaxGNode == 3       \* waits-for graph on its own: the vertices are 1..MaxGNode
MaxEdges == 4       \* waits-for graph on its own: edges in the list

NUMPAGES == 2       \* frames of the pager (scaled down)
MaxPN == 2          \* page numbers are 0..MaxPN
MaxData == 2        \* page contents are 0 (zero-filled) and 1..MaxData
MaxPOps == 6        \* pager operations per run

MaxWOps == 3        \* concurrent hash index: Insert calls of the writing thread
MaxROps == 2        \* concurrent hash index: calls of the other thread
MaxJKey == 2        \* join: the keys of the two tables are 0..MaxJKey
MaxPinOps == 3      \* pin ledger: operations called per run
MaxGets == 3        \* pin ledger: pages one operation gets
MaxProbes == 2      \* pin ledger: probe goroutines one run starts
MaxG == 2           \* join goroutines: probe goroutines of the group
MaxMatches == 3     \* join goroutines: results one probe has to send
ResultsCap == 2     \* join goroutines: buffer of the results channel (scaled down)

MaxLog == 5         \* records in the log file
MaxCrash == 2       \* crashes per run

HKeys == 0..MaxHKey
Tx == 1..MaxTx
LKeys == 1..MaxLKey
Modes == {"R", "W"}
BKeys == 1..MaxBKey
Vals == 1..MaxVal
Frames == 1..NUMPAGES
PNs == 0..MaxPN
Datas == 1..MaxData

Pow2(n) == 2 ^ n

(***************************************************************************)
(* Extendible-hash index.                                                  *)
(***************************************************************************)

\* The hash of a key: a bijective scramble of the key's bits (HashBits wide).
HashBits == 4
HashOf(k) == ((k % 4) * 4 + (k \div 4)) % Pow2(HashBits)

\* Hasher(key, depth): the low `depth` bits of the key's hash.
Hasher(key, depth) == HashOf(key) % Pow2(depth)

NewHashBucket(d) == [depth |-> d, cells |-> <<>>]

\* NewHashTable: global depth 2, four empty buckets of local depth 2.
NewHashTable ==
    [depth |-> 2,
     buckets |-> [i \in 1..4 |-> i - 1],
     pages |-> [i \in 1..4 |-> NewHashBucket(2)]]

\* GetBucket(hash): the bucket page the directory slot `hash` points at.
GetBucketPN(t, hash) == t.buckets[hash + 1]
GetBucket(t, hash) == t.pages[GetBucketPN(t, hash) + 1]

RECURSIVE FirstIdx(_, _, _)
\* index of the first cell at or after i whose key is `key`; 0 when there is none
FirstIdx(cells, key, i) ==
    IF i > Len(cells) THEN 0
    ELSE IF cells[i][1] = key THEN i
    ELSE FirstIdx(cells, key, i + 1)

\* HashBucket.Find: linear scan, first match.
BucketFind(bucket, key) ==
    LET i == FirstIdx(bucket.cells, key, 1)
    IN  IF i = 0 THEN [found |-> FALSE, value |-> 0]
        ELSE [found |-> TRUE, value |-> bucket.cells[i][2]]

\* HashBucket.Insert: a full bucket reports overflow and stores nothing.
BucketInsert(bucket, key, value) ==
    IF Len(bucket.cells) = BUCKETSIZE
    THEN [overflow |-> TRUE, bucket |-> bucket]
    ELSE [overflow |-> FALSE, bucket |-> [bucket EXCEPT !.cells = Append(@, <<key, value>>)]]

\* HashBucket.Update: overwrite the first match; error when there is none.
BucketUpdate(bucket, key, value) ==
    LET i == FirstIdx(bucket.cells, key, 1)
    IN  IF i = 0 THEN [err |-> TRUE, bucket |-> bucket]
        ELSE [err |-> FALSE, bucket |-> [bucket EXCEPT !.cells[i] = <<key, value>>]]

\* HashBucket.Delete: shift-remove the first match; error when there is none.
BucketDelete(bucket, key) ==
    LET i == FirstIdx(bucket.cells, key, 1)
    IN  IF i = 0 THEN [err |-> TRUE, bucket |-> bucket]
        ELSE [err |-> FALSE,
              bucket |-> [bucket EXCEPT !.cells =
                    [j \in 1..(Len(@) - 1) |-> IF j < i THEN @[j] ELSE @[j + 1]]]]

\* A wrong ExtendTable: the new half of the directory is left zeroed.
ExtendTableZeroed(t) ==
    [t EXCEPT !.depth = @ + 1, !.buckets = @ \o [i \in 1..Len(@) |-> 0]]

\* HashTable.ExtendTable: depth + 1, the directory appended to itself.
ExtendTable(t) == [t EXCEPT !.depth = @ + 1, !.buckets = @ \o @]

\* Split never ends when every cell of the full bucket has the same hash.
SplitDiverges(bucket) ==
    /\ Len(bucket.cells) > 0
    /\ \A i, j \in DOMAIN bucket.cells :
            HashOf(bucket.cells[i][1]) = HashOf(bucket.cells[j][1])

RECURSIVE Split(_, _, _)
\* HashTable.Split(bucket, hash), the bucket given by its page number pn.
Split(t, pn, hash) ==
    LET bucket == t.pages[pn + 1]
        t1 == IF bucket.depth = t.depth THEN ExtendTable(t) ELSE t
        oldHash == hash % Pow2(bucket.depth)
        newHash == oldHash + Pow2(bucket.depth)
        newBucketDepth == bucket.depth + 1
        newPN == Len(t1.pages)
        stay == SelectSeq(bucket.cells, LAMBDA c : Hasher(c[1], newBucketDepth) = oldHash)
        move == SelectSeq(bucket.cells, LAMBDA c : Hasher(c[1], newBucketDepth) # oldHash)
        t2 == [t1 EXCEPT
                !.pages = Append([@ EXCEPT ![pn + 1] =
                                    [depth |-> newBucketDepth, cells |-> stay]],
                                 [depth |-> newBucketDepth, cells |-> move]),
                !.buckets = [i \in DOMAIN @ |->
                                IF ((i - 1) % Pow2(newBucketDepth)) = newHash
                                THEN newPN ELSE @[i]]]
    IN  IF Len(stay) = 0 THEN Split(t2, newPN, newHash)
        ELSE IF Len(move) = 0 THEN Split(t2, pn, oldHash)
        ELSE t2

\* HashTable.Find(key)
Find(t, key) == BucketFind(GetBucket(t, Hasher(key, t.depth)), key)

\* HashTable.Insert(key, value): the table after the call (it returns no error).
Insert(t, key, value) ==
    LET hashedKey == Hasher(key, t.depth)
        pn == GetBucketPN(t, hashedKey)
        r == BucketInsert(t.pages[pn + 1], key, value)
        t1 == [t EXCEPT !.pages[pn + 1] = r.bucket]
    IN  IF ~r.overflow THEN t1 ELSE Split(t1, pn, hashedKey)

InsertOverflows(t, key) ==
    Len(GetBucket(t, Hasher(key, t.depth)).cells) = BUCKETSIZE

\* HashTable.Update / HashTable.Delete
Update(t, key, value) ==
    LET pn == GetBucketPN(t, Hasher(key, t.depth))
        r == BucketUpdate(t.pages[pn + 1], key, value)
    IN  [err |-> r.err, t |-> [t EXCEPT !.pages[pn + 1] = r.bucket]]

Delete(t, key) ==
    LET pn == GetBucketPN(t, Hasher(key, t.depth))
        r == BucketDelete(t.pages[pn + 1], key)
    IN  [err |-> r.err, t |-> [t EXCEPT !.pages[pn + 1] = r.bucket]]

\* HashBucket.Select: the cells of the bucket, in order
BucketSelect(bucket) == bucket.cells

RECURSIVE SelectFrom(_, _)
\* HashTable.Select: the loop over the directory slots, from slot i on
SelectFrom(t, i) ==
    IF i > Len(t.buckets) THEN <<>>
    ELSE BucketSelect(t.pages[t.buckets[i] + 1]) \o SelectFrom(t, i + 1)

\* HashTable.Select
Select(t) == SelectFrom(t, 1)

InitHash ==
    /\ table = NewHashTable
    /\ hExpect = [k \in HKeys |-> 0]
    /\ hPure = TRUE
    /\ hLast = [op |-> "none", err |-> FALSE, split |-> FALSE]
    /\ hStatus = "ok"
    /\ hOps = 0

HInsert(key, value) ==
    /\ hStatus = "ok"
    /\ hOps < MaxHOps
    /\ hOps' = hOps + 1
    /\ IF InsertOverflows(table, key)
            /\ SplitDiverges(GetBucket(table, Hasher(key, table.depth)))
       THEN /\ hStatus' = "diverged"
            /\ UNCHANGED <<table, hExpect, hPure>>
            /\ hLast' = [op |-> "insert", err |-> TRUE, split |-> TRUE]
       ELSE /\ table' = Insert(table, key, value)
            /\ hPure' = (hPure /\ hExpect[key] = 0)
            /\ hExpect' = IF hExpect[key] = 0 THEN [hExpect EXCEPT ![key] = value]
                          ELSE hExpect
            /\ hLast' = [op |-> "insert", err |-> FALSE,
                         split |-> InsertOverflows(table, key)]
            /\ UNCHANGED hStatus

HUpdate(key, value) ==
    /\ hStatus = "ok"
    /\ hOps < MaxHOps
    /\ hOps' = hOps + 1
    /\ LET r == Update(table, key, value)
       IN  /\ table' = r.t
           /\ hExpect' = IF r.err THEN hExpect ELSE [hExpect EXCEPT ![key] = value]
           /\ hLast' = [op |-> "update", err |-> r.err, split |-> FALSE]
    /\ hPure' = FALSE
    /\ UNCHANGED hStatus

HDelete(key) ==
    /\ hStatus = "ok"
    /\ hOps < MaxHOps
    /\ hOps' = hOps + 1
    /\ LET r == Delete(table, key)
       IN  /\ table' = r.t
           /\ hExpect' = IF r.err THEN hExpect ELSE [hExpect EXCEPT ![key] = 0]
           /\ hLast' = [op |-> "delete", err |-> r.err, split |-> FALSE]
    /\ hPure' = FALSE
    /\ UNCHANGED hStatus

HExtendTable ==
    /\ hStatus = "ok"
    /\ hOps < MaxHOps
    /\ hOps' = hOps + 1
    /\ table.depth < MaxDepth
    /\ table' = ExtendTable(table)
    /\ hLast' = [op |-> "extend", err |-> FALSE, split |-> FALSE]
    /\ UNCHANGED <<hExpect, hPure, hStatus>>

HInsertAny == \E k \in HKeys, v \in Vals : HInsert(k, v)
HUpdateAny == \E k \in HKeys, v \in Vals : HUpdate(k, v)
HDeleteAny == \E k \in HKeys : HDelete(k)

NextHash ==
    \/ HInsertAny
    \/ HUpdateAny
    \/ HDeleteAny
    \/ HExtendTable

(***************************************************************************)
(* The hash index under two threads: one runs Insert, step by step through *)
(* Split; the other runs Find, Update and Delete. The table latch is held  *)
(* by a thread whose record has tl set, the latch of bucket page pn by the *)
(* thread whose record has bl set and names pn.                            *)
(***************************************************************************)

NOBUCKET == 0 - 1

\* A wrong RLock: it does not wait for the thread that holds the write latch.
RLockNoWait(writerHolds) == TRUE

\* HashTable.RLock can be taken: no thread holds the write latch.
RLockReady(writerHolds) == ~writerHolds

\* HashTable.WLock can be taken: no thread holds the latch in either mode.
WLockReady(readerHolds) == ~readerHolds

\* The latch of bucket page pn can be taken by a thread when the other
\* thread does not hold it (the other thread holds a write latch, or this
\* request is for one).
BucketLockReady(pn, other) == ~(other.bl # "none" /\ other.pn = pn)

IdleW == [pc |-> "idle", key |-> 0, value |-> 0, hash |-> 0, pn |-> NOBUCKET,
          bl |-> "none", tl |-> FALSE, spn |-> NOBUCKET, shash |-> 0,
          newPN |-> NOBUCKET, overflow |-> FALSE, n |-> 0]

IdleR == [pc |-> "idle", op |-> "none", key |-> 0, value |-> 0, hash |-> 0,
          pn |-> NOBUCKET, bl |-> "none", tl |-> FALSE, res |-> "none",
          stored |-> FALSE, n |-> 0]

InitHashConc ==
    /\ hcW = IdleW
    /\ hcR = IdleR
    /\ hcStored = {}

\* Insert: table.WLock()
WBegin ==
    \E key \in HKeys, value \in Vals :
        /\ hcW.pc = "idle" /\ hcW.n < MaxWOps
        /\ WLockReady(hcR.tl)
        /\ hcW' = [IdleW EXCEPT !.pc = "w_get", !.key = key, !.value = value,
                                !.tl = TRUE, !.n = hcW.n + 1]
        /\ UNCHANGED <<table, hcR, hcStored>>

\* Insert: Hasher and GetBucket(hashedKey, WRITE_LOCK)
WGetBucket ==
    /\ hcW.pc = "w_get"
    /\ LET hashedKey == Hasher(hcW.key, table.depth)
           pn == GetBucketPN(table, hashedKey)
       IN  /\ BucketLockReady(pn, hcR)
           /\ hcW' = [hcW EXCEPT !.pc = "w_insert", !.hash = hashedKey, !.pn = pn,
                                 !.bl = "W"]
    /\ UNCHANGED <<table, hcR, hcStored>>

\* Insert: bucket.Insert, then return or Split(bucket, hashedKey)
WInsert ==
    /\ hcW.pc = "w_insert"
    /\ LET r == BucketInsert(table.pages[hcW.pn + 1], hcW.key, hcW.value)
       IN  /\ table' = [table EXCEPT !.pages[hcW.pn + 1] = r.bucket]
           /\ hcW' = [hcW EXCEPT
                        !.pc = IF ~r.overflow THEN "w_end"
                               ELSE IF SplitDiverges(table.pages[hcW.pn + 1])
                               THEN "w_diverged" ELSE "w_split",
                        !.overflow = r.overflow,
                        !.spn = hcW.pn, !.shash = hcW.hash]
    /\ UNCHANGED <<hcR, hcStored>>

\* Split: ExtendTable when the bucket is as deep as the table
WSplitExtend ==
    /\ hcW.pc = "w_split"
    /\ table' = IF table.pages[hcW.spn + 1].depth = table.depth
                THEN ExtendTable(table) ELSE table
    /\ hcW' = [hcW EXCEPT !.pc = "w_depth"]
    /\ UNCHANGED <<hcR, hcStored>>

\* Split: bucket.updateDepth(newBucketDepth)
WSplitDepth ==
    /\ hcW.pc = "w_depth"
    /\ table' = [table EXCEPT !.pages[hcW.spn + 1].depth = @ + 1]
    /\ hcW' = [hcW EXCEPT !.pc = "w_new"]
    /\ UNCHANGED <<hcR, hcStored>>

\* Split: NewHashBucket(pager, newBucketDepth)
WSplitNew ==
    /\ hcW.pc = "w_new"
    /\ table' = [table EXCEPT
                    !.pages = Append(@, NewHashBucket(table.pages[hcW.spn + 1].depth))]
    /\ hcW' = [hcW EXCEPT !.pc = "w_move", !.newPN = Len(table.pages)]
    /\ UNCHANGED <<hcR, hcStored>>

\* the two hashes of the split in progress
OldHash == hcW.shash % Pow2(table.pages[hcW.spn + 1].depth - 1)
NewHash == OldHash + Pow2(table.pages[hcW.spn + 1].depth - 1)

\* Split: the cells whose hash under the new depth is not oldHash go to the
\* new bucket; the key counts of both buckets are set
WSplitMove ==
    /\ hcW.pc = "w_move"
    /\ LET bucket == table.pages[hcW.spn + 1]
           stay == SelectSeq(bucket.cells, LAMBDA c : Hasher(c[1], bucket.depth) = OldHash)
           move == SelectSeq(bucket.cells, LAMBDA c : Hasher(c[1], bucket.depth) # OldHash)
       IN  table' = [table EXCEPT !.pages[hcW.spn + 1].cells = stay,
                                  !.pages[hcW.newPN + 1].cells = move]
    /\ hcW' = [hcW EXCEPT !.pc = "w_dir"]
    /\ UNCHANGED <<hcR, hcStored>>

\* Split: the directory slots of newHash point at the new bucket; then the
\* recursive call when one of the two buckets got no cell
WSplitDir ==
    /\ hcW.pc = "w_dir"
    /\ table' = [table EXCEPT !.buckets =
                    [i \in DOMAIN @ |->
                        IF ((i - 1) % Pow2(table.pages[hcW.spn + 1].depth)) = NewHash
                        THEN hcW.newPN ELSE @[i]]]
    /\ hcW' = IF Len(table.pages[hcW.spn + 1].cells) = 0
              THEN [hcW EXCEPT !.pc = "w_split", !.spn = hcW.newPN, !.shash = NewHash]
              ELSE IF Len(table.pages[hcW.newPN + 1].cells) = 0
              THEN [hcW EXCEPT !.pc = "w_split", !.shash = OldHash]
              ELSE [hcW EXCEPT !.pc = "w_end"]
    /\ UNCHANGED <<hcR, hcStored>>

\* Insert returns: the deferred Put, bucket.WUnlock and table.WUnlock
WEnd ==
    /\ hcW.pc = "w_end"
    /\ hcW' = [IdleW EXCEPT !.n = hcW.n]
    /\ hcStored' = IF hcW.overflow THEN hcStored ELSE hcStored \cup {hcW.key}
    /\ UNCHANGED <<table, hcR>>

\* Find, Update, Delete: table.RLock()
RBegin ==
    \E op \in {"find", "update", "delete"}, key \in HKeys, value \in Vals :
        /\ hcR.pc = "idle" /\ hcR.n < MaxROps
        /\ op # "update" => value = 1
        /\ RLockReady(hcW.tl)
        /\ hcR' = [IdleR EXCEPT !.pc = "r_dir", !.op = op, !.key = key,
                                !.value = value, !.tl = TRUE, !.n = hcR.n + 1]
        /\ UNCHANGED <<table, hcW, hcStored>>

\* GetBucket: Hasher(key, table.depth) and the page number in the directory
RReadDir ==
    /\ hcR.pc = "r_dir"
    /\ hcR' = [hcR EXCEPT !.pc = "r_lock",
                          !.hash = Hasher(hcR.key, table.depth),
                          !.pn = GetBucketPN(table, Hasher(hcR.key, table.depth))]
    /\ UNCHANGED <<table, hcW, hcStored>>

\* GetBucket: the latch of the bucket, read for Find and write for the others
RLockBucket ==
    /\ hcR.pc = "r_lock"
    /\ BucketLockReady(hcR.pn, hcW)
    /\ hcR' = [hcR EXCEPT !.pc = "r_unlock",
                          !.bl = IF hcR.op = "find" THEN "R" ELSE "W"]
    /\ UNCHANGED <<table, hcW, hcStored>>

\* table.RUnlock()
RUnlockTable ==
    /\ hcR.pc = "r_unlock"
    /\ hcR' = [hcR EXCEPT !.pc = "r_op", !.tl = FALSE]
    /\ UNCHANGED <<table, hcW, hcStored>>

\* bucket.Find, bucket.Update or bucket.Delete, and the deferred unlock
ROp ==
    /\ hcR.pc = "r_op"
    /\ LET bucket == table.pages[hcR.pn + 1]
           found == BucketFind(bucket, hcR.key).found
           after == IF hcR.op = "update" THEN BucketUpdate(bucket, hcR.key, hcR.value).bucket
                    ELSE IF hcR.op = "delete" THEN BucketDelete(bucket, hcR.key).bucket
                    ELSE bucket
       IN  /\ table' = [table EXCEPT !.pages[hcR.pn + 1] = after]
           /\ hcR' = [hcR EXCEPT !.pc = "idle", !.bl = "none",
                                 !.res = IF found THEN "found" ELSE "missing",
                                 !.stored = hcR.key \in hcStored]
           /\ hcStored' = IF hcR.op = "delete" /\ found
                          THEN hcStored \ {hcR.key} ELSE hcStored
    /\ UNCHANGED hcW

NextHashConc ==
    \/ WBegin
    \/ WGetBucket
    \/ WInsert
    \/ WSplitExtend
    \/ WSplitDepth
    \/ WSplitNew
    \/ WSplitMove
    \/ WSplitDir
    \/ WEnd
    \/ RBegin
    \/ RReadDir
    \/ RLockBucket
    \/ RUnlockTable
    \/ ROp

(***************************************************************************)
(* Grace hash join of two tables through two temporary hash indexes.       *)
(***************************************************************************)

JKeys == 0..MaxJKey

DEFAULT_FILTER_SIZE == 1024

\* The two hash functions of the Bloom filter, reduced modulo the filter size.
XxHasher(key, size) == HashOf(key) % size
MurmurHasher(key, size) == (key * 5 + 1) % size

\* CreateFilter: no bit set.
CreateFilter == {}

\* BloomFilter.Insert: set the two bits of the key.
FilterInsert(bits, key) ==
    bits \cup {XxHasher(key, DEFAULT_FILTER_SIZE) % DEFAULT_FILTER_SIZE,
               MurmurHasher(key, DEFAULT_FILTER_SIZE) % DEFAULT_FILTER_SIZE}

\* BloomFilter.Contains: both bits of the key are set.
FilterContains(bits, key) ==
    /\ (XxHasher(key, DEFAULT_FILTER_SIZE) % DEFAULT_FILTER_SIZE) \in bits
    /\ (MurmurHasher(key, DEFAULT_FILTER_SIZE) % DEFAULT_FILTER_SIZE) \in bits

RECURSIVE TableScan(_, _)
\* The cursor walk of a source table from TableStart: its entries in key order.
TableScan(tbl, k) ==
    IF k > MaxJKey THEN <<>>
    ELSE (IF tbl[k] = 0 THEN <<>> ELSE << <<k, tbl[k]>> >>) \o TableScan(tbl, k + 1)

RECURSIVE buildFrom(_, _, _, _)
\* The loop of buildHashIndex from entry i on: the join value is the hash key.
\* An Insert whose Split never ends leaves the build "diverged".
buildFrom(t, rows, i, useKey) ==
    IF i > Len(rows) THEN [status |-> "ok", t |-> t]
    ELSE LET key == IF useKey THEN rows[i][1] ELSE rows[i][2]
             value == IF useKey THEN rows[i][2] ELSE rows[i][1]
         IN  IF /\ InsertOverflows(t, key)
                /\ SplitDiverges(GetBucket(t, Hasher(key, t.depth)))
             THEN [status |-> "diverged", t |-> t]
             ELSE buildFrom(Insert(t, key, value), rows, i + 1, useKey)

\* buildHashIndex(sourceTable, useKey)
buildHashIndex(sourceTable, useKey) ==
    buildFrom(NewHashTable, TableScan(sourceTable, 0), 1, useKey)

RECURSIVE ExtendTo(_, _)
\* Join, the loop that makes both directories the same global depth.
ExtendTo(t, d) == IF t.depth >= d THEN t ELSE ExtendTo(ExtendTable(t), d)

RECURSIVE FilterOf(_, _)
\* probeBuckets: the filter holding every key of the right bucket
FilterOf(rEntries, i) ==
    IF i > Len(rEntries) THEN CreateFilter
    ELSE FilterInsert(FilterOf(rEntries, i + 1), rEntries[i][1])

\* probeBuckets: the pair sent for a left and a right cell, each turned back
\* into (key, value) of its table.
ResultPair(lEntry, rEntry, joinOnLeftKey, joinOnRightKey) ==
    <<IF joinOnLeftKey THEN <<lEntry[1], lEntry[2]>> ELSE <<lEntry[2], lEntry[1]>>,
      IF joinOnRightKey THEN <<rEntry[1], rEntry[2]>> ELSE <<rEntry[2], rEntry[1]>> >>

RECURSIVE probeInner(_, _, _, _, _)
\* probeBuckets: the inner loop over the right cells for one left cell
probeInner(lEntry, rEntries, j, joinOnLeftKey, joinOnRightKey) ==
    IF j > Len(rEntries) THEN <<>>
    ELSE (IF lEntry[1] = rEntries[j][1]
          THEN <<ResultPair(lEntry, rEntries[j], joinOnLeftKey, joinOnRightKey)>>
          ELSE <<>>)
         \o probeInner(lEntry, rEntries, j + 1, joinOnLeftKey, joinOnRightKey)

RECURSIVE probeOuter(_, _, _, _, _, _)
\* probeBuckets: the outer loop over the left cells; a cell the filter does
\* not contain is skipped.
probeOuter(lEntries, rEntries, filter, i, joinOnLeftKey, joinOnRightKey) ==
    IF i > Len(lEntries) THEN <<>>
    ELSE (IF ~FilterContains(filter, lEntries[i][1]) THEN <<>>
          ELSE probeInner(lEntries[i], rEntries, 1, joinOnLeftKey, joinOnRightKey))
         \o probeOuter(lEntries, rEntries, filter, i + 1, joinOnLeftKey, joinOnRightKey)

\* probeBuckets(lBucket, rBucket, joinOnLeftKey, joinOnRightKey): what it sends
probeBuckets(lBucket, rBucket, joinOnLeftKey, joinOnRightKey) ==
    LET lEntries == BucketSelect(lBucket)
        rEntries == BucketSelect(rBucket)
    IN  probeOuter(lEntries, rEntries, FilterOf(rEntries, 1), 1,
                   joinOnLeftKey, joinOnRightKey)

RECURSIVE probeFrom(_, _, _, _, _, _)
\* Join, the probe loop from directory slot i on: a pair of bucket pages in
\* seenList is skipped.
probeFrom(lt, rt, i, seenList, joinOnLeftKey, joinOnRightKey) ==
    IF i > Len(lt.buckets) THEN <<>>
    ELSE LET bucketPair == <<lt.buckets[i], rt.buckets[i]>>
         IN  IF bucketPair \in seenList
             THEN probeFrom(lt, rt, i + 1, seenList, joinOnLeftKey, joinOnRightKey)
             ELSE probeBuckets(lt.pages[bucketPair[1] + 1], rt.pages[bucketPair[2] + 1],
                               joinOnLeftKey, joinOnRightKey)
                  \o probeFrom(lt, rt, i + 1, seenList \cup {bucketPair},
                               joinOnLeftKey, joinOnRightKey)

RECURSIVE BagOf(_)
\* the results channel read to its end: the pairs sent, in no order
BagOf(s) == IF s = <<>> THEN EmptyBag ELSE BagOf(Tail(s)) (+) SetToBag({Head(s)})

\* Join(leftTable, rightTable, joinOnLeftKey, joinOnRightKey)
Join(leftTable, rightTable, joinOnLeftKey, joinOnRightKey) ==
    LET l == buildHashIndex(leftTable, joinOnLeftKey)
        r == buildHashIndex(rightTable, joinOnRightKey)
        d == IF l.t.depth > r.t.depth THEN l.t.depth ELSE r.t.depth
        leftHashTable == ExtendTo(l.t, d)
        rightHashTable == ExtendTo(r.t, d)
    IN  IF l.status # "ok" \/ r.status # "ok"
        THEN [status |-> "diverged", out |-> EmptyBag,
              onLeftKey |-> joinOnLeftKey, onRightKey |-> joinOnRightKey]
        ELSE [status |-> "ok",
              out |-> BagOf(probeFrom(leftHashTable, rightHashTable, 1, {},
                                      joinOnLeftKey, joinOnRightKey)),
              onLeftKey |-> joinOnLeftKey, onRightKey |-> joinOnRightKey]

InitJoin ==
    /\ jLeft = [k \in JKeys |-> 0]
    /\ jRight = [k \in JKeys |-> 0]
    /\ jRes = [status |-> "none", out |-> EmptyBag, onLeftKey |-> TRUE, onRightKey |-> TRUE]

\* An entry is put into the left (right) table before the join.
JInsertLeft ==
    \E k \in JKeys, v \in Vals :
        /\ jRes.status = "none"
        /\ jLeft[k] = 0
        /\ jLeft' = [jLeft EXCEPT ![k] = v]
        /\ UNCHANGED <<jRight, jRes>>

JInsertRight ==
    \E k \in JKeys, v \in Vals :
        /\ jRes.status = "none"
        /\ jRight[k] = 0
        /\ jRight' = [jRight EXCEPT ![k] = v]
        /\ UNCHANGED <<jLeft, jRes>>

\* Join runs and its results channel is read to the end.
JJoin ==
    \E joinOnLeftKey, joinOnRightKey \in BOOLEAN :
        /\ jRes.status = "none"
        /\ jRes' = Join(jLeft, jRight, joinOnLeftKey, joinOnRightKey)
        /\ UNCHANGED <<jLeft, jRight>>

NextJoin ==
    \/ JInsertLeft
    \/ JInsertRight
    \/ JJoin

(***************************************************************************)
(* The pin ledger: the GetPage and Put calls of the index, cursor and join *)
(* operations, on each of their exit paths. Which pages an operation gets, *)
(* how deep it descends and how often it splits are inputs.                *)
(***************************************************************************)

PinOpsHash == {"Find", "Update", "Delete", "Insert"}
PinOpsTree == {"TableStart", "TableFind", "BTInsert", "StepForward"}
PinOpsAll == PinOpsHash \cup PinOpsTree \cup {"Select", "Join"}

\* Pager.GetPage, when it succeeds: the page's pin count goes up by one.
PinGet(p, pn) == [p EXCEPT ![pn] = @ + 1]

\* Page.Put: the page's pin count goes down by one.
PinPut(p, pn) == [p EXCEPT ![pn] = @ - 1]

RECURSIVE RunDefers(_, _)
\* The deferred Puts of the returning call chain run, the last one first.
RunDefers(p, ds) ==
    IF ds = <<>> THEN p
    ELSE RunDefers(PinPut(p, ds[Len(ds)]), SubSeq(ds, 1, Len(ds) - 1))

\* The pins on page pn that running probe goroutines hold.
ProbePins(pr, pn) ==
    Cardinality({i \in DOMAIN pr : pr[i][1] = pn})
    + Cardinality({i \in DOMAIN pr : pr[i][2] = pn})

\* Join, when the right bucket of a pair cannot be got: no Put of the left one.
JoinPairFailNoPut(p, l) == p

\* Join, when the right bucket of a pair cannot be got: the left bucket's
\* page, already pinned, is Put before the error is returned.
JoinPairFail(p, l) == PinPut(p, l)

InitPins ==
    /\ pins = [pn \in PNs |-> 0]
    /\ pinBase = [pn \in PNs |-> 0]
    /\ pinPc = [op |-> "idle", last |-> "none", n |-> 0, res |-> "none"]
    /\ defers = <<>>
    /\ probes = <<>>
    /\ pinOps = 0

\* An operation is called.
PinCall ==
    \E op \in PinOpsAll :
        /\ pinPc.op = "idle"
        /\ pinOps < MaxPinOps
        /\ pinOps' = pinOps + 1
        /\ pinPc' = [op |-> op, last |-> op, n |-> 0, res |-> "running"]
        /\ pinBase' = [pn \in PNs |-> pins[pn] - ProbePins(probes, pn)]
        /\ UNCHANGED <<pins, defers, probes>>

\* The running operation returns res: its deferred Puts run.
PinReturned(p, res) ==
    /\ pins' = RunDefers(p, defers)
    /\ defers' = <<>>
    /\ pinPc' = [pinPc EXCEPT !.op = "idle", !.res = res]
    /\ UNCHANGED <<pinBase, probes, pinOps>>

\* The running operation got page pn and deferred its Put.
PinDeferred(pn) ==
    /\ pins' = PinGet(pins, pn)
    /\ defers' = Append(defers, pn)
    /\ pinPc' = [pinPc EXCEPT !.n = @ + 1]
    /\ UNCHANGED <<pinBase, probes, pinOps>>

\* HashTable.Find, Update, Delete, Insert: GetBucket pins the bucket's page
\* and the caller defers its Put. When GetBucket fails no page is pinned; the
\* unlock of the bucket, deferred before the error is looked at, then either
\* finds a bucket to unlock or dereferences nil.
PinHashGetBucket ==
    \E pn \in PNs, out \in {"ok", "err", "panic"} :
        /\ pinPc.op \in PinOpsHash
        /\ pinPc.n = 0
        /\ CASE out = "ok" -> PinDeferred(pn)
             [] out = "err" -> PinReturned(pins, "err")
             [] out = "panic" ->
                    /\ pinPc' = [pinPc EXCEPT !.op = "panicked", !.res = "panic"]
                    /\ UNCHANGED <<pins, pinBase, defers, probes, pinOps>>

\* HashTable.Split, called by Insert and by itself: NewHashBucket gets the
\* new bucket's page, and Split defers its Put; if it fails Split returns.
PinSplit ==
    \E pn \in PNs, ok \in BOOLEAN :
        /\ pinPc.op = "Insert"
        /\ pinPc.n >= 1
        /\ pinPc.n < MaxGets
        /\ IF ok THEN PinDeferred(pn) ELSE PinReturned(pins, "err")

\* HashTable.Select, one round of its loop: the bucket's page is got, the
\* bucket is read, the page is Put; an error of either call ends the loop.
PinSelect ==
    \E pn \in PNs, out \in {"ok", "geterr", "selecterr"} :
        /\ pinPc.op = "Select"
        /\ pinPc.n < MaxGets
        /\ CASE out = "ok" ->
                    /\ pins' = PinPut(PinGet(pins, pn), pn)
                    /\ pinPc' = [pinPc EXCEPT !.n = @ + 1]
                    /\ UNCHANGED <<pinBase, defers, probes, pinOps>>
             [] out = "geterr" -> PinReturned(pins, "err")
             [] out = "selecterr" -> PinReturned(PinPut(PinGet(pins, pn), pn), "err")

\* TableStart, TableFind, StepForward, the insert of the B+-tree: the root,
\* each child on the way down, the next leaf, the new node of a split; each
\* GetPage is followed by a deferred Put, and its error by a return.
PinTreeGet ==
    \E pn \in PNs, ok \in BOOLEAN :
        /\ pinPc.op \in PinOpsTree
        /\ pinPc.n < MaxGets
        /\ IF ok THEN PinDeferred(pn) ELSE PinReturned(pins, "err")

\* Join, one bucket pair: both pages are got and a probe goroutine is
\* started, which owns the two pins.
PinJoinPair ==
    \E l \in PNs, r \in PNs, out \in {"ok", "lerr", "rerr"} :
        /\ pinPc.op = "Join"
        /\ pinPc.n < MaxGets
        /\ Len(probes) < MaxProbes
        /\ CASE out = "ok" ->
                    /\ pins' = PinGet(PinGet(pins, l), r)
                    /\ probes' = Append(probes, <<l, r>>)
                    /\ pinPc' = [pinPc EXCEPT !.n = @ + 1]
                    /\ UNCHANGED <<pinBase, defers, pinOps>>
             [] out = "lerr" -> PinReturned(pins, "err")
             [] out = "rerr" -> PinReturned(JoinPairFail(PinGet(pins, l), l), "rerr")

\* probeBuckets returns, with a result or an error: its two deferred Puts run.
PinProbeReturn ==
    \E i \in DOMAIN probes :
        /\ pins' = PinPut(PinPut(pins, probes[i][2]), probes[i][1])
        /\ probes' = SubSeq(probes, 1, i - 1) \o SubSeq(probes, i + 1, Len(probes))
        /\ UNCHANGED <<pinBase, pinPc, defers, pinOps>>

\* The running operation returns without an error.
PinReturn ==
    /\ pinPc.op \in PinOpsAll
    /\ pinPc.op \in PinOpsHash \cup PinOpsTree => pinPc.n >= 1
    /\ PinReturned(pins, "ok")

NextPins ==
    \/ PinCall
    \/ PinHashGetBucket
    \/ PinSplit
    \/ PinSelect
    \/ PinTreeGet
    \/ PinJoinPair
    \/ PinProbeReturn
    \/ PinReturn

(***************************************************************************)
(* The probe goroutines of Join, the results channel and the context.      *)
(***************************************************************************)

Gs == 1..MaxG

\* The case <-ctx.Done() of sendResult is never ready.
CtxNeverDone(ctx) == FALSE

\* The case <-ctx.Done() of sendResult is ready once the context is cancelled.
CtxDoneReady(ctx) == ctx = "cancelled"

\* The case resultsChan <- result of sendResult is ready while the buffer has room.
ChanSendReady(n) == n < ResultsCap

InitProbes ==
    /\ gjCtx = "live"
    /\ gjChan = 0
    /\ gjProbe = [g \in Gs |-> [pc |-> "none", left |-> 0, res |-> "none", blocked |-> FALSE]]

\* Join starts the probe of one bucket pair, which has k matches to send.
GjSpawn(g) ==
    \E k \in 0..MaxMatches :
        /\ gjProbe[g].pc = "none"
        /\ gjCtx = "live"
        /\ gjProbe' = [gjProbe EXCEPT ![g] = [pc |-> "run", left |-> k, res |-> "none",
                                              blocked |-> FALSE]]
        /\ UNCHANGED <<gjCtx, gjChan>>

\* sendResult, the case resultsChan <- result: the result is in the buffer.
GjSendResult(g) ==
    /\ gjProbe[g].pc = "run"
    /\ gjProbe[g].left > 0
    /\ ChanSendReady(gjChan)
    /\ gjChan' = gjChan + 1
    /\ gjProbe' = [gjProbe EXCEPT ![g].left = @ - 1]
    /\ UNCHANGED gjCtx

\* sendResult, the case <-ctx.Done(): probeBuckets returns ctx.Err().
GjCtxDone(g) ==
    /\ gjProbe[g].pc = "run"
    /\ gjProbe[g].left > 0
    /\ CtxDoneReady(gjCtx)
    /\ gjProbe' = [gjProbe EXCEPT ![g].pc = "done", ![g].res = "ctx",
                                  ![g].blocked = ~ChanSendReady(gjChan)]
    /\ UNCHANGED <<gjCtx, gjChan>>

\* probeBuckets has sent every match and returns nil.
GjFinish(g) ==
    /\ gjProbe[g].pc = "run"
    /\ gjProbe[g].left = 0
    /\ gjProbe' = [gjProbe EXCEPT ![g].pc = "done", ![g].res = "nil"]
    /\ UNCHANGED <<gjCtx, gjChan>>

\* The caller of Join takes one result from the channel.
GjRead ==
    /\ gjChan > 0
    /\ gjChan' = gjChan - 1
    /\ UNCHANGED <<gjCtx, gjProbe>>

\* The context is cancelled.
GjCancel ==
    /\ gjCtx = "live"
    /\ gjCtx' = "cancelled"
    /\ UNCHANGED <<gjChan, gjProbe>>

GjStep(g) == GjSendResult(g) \/ GjCtxDone(g) \/ GjFinish(g)

GjSpawnAny == \E g \in Gs : GjSpawn(g)
GjSendResultAny == \E g \in Gs : GjSendResult(g)
GjCtxDoneAny == \E g \in Gs : GjCtxDone(g)
GjFinishAny == \E g \in Gs : GjFinish(g)

NextProbes ==
    \/ GjSpawnAny
    \/ GjSendResultAny
    \/ GjCtxDoneAny
    \/ GjFinishAny
    \/ GjRead
    \/ GjCancel

(***************************************************************************)
(* B+-tree index.                                                          *)
(***************************************************************************)

NOPAGE == 0 - 1

\* createLeafNode: a fresh zero-filled page, no right sibling.
createLeafNode ==
    [type |-> "leaf", numKeys |-> 0,
     cells |-> [i \in 1..ENTRIES_PER_LEAF_NODE |-> <<0, 0>>],
     rightSiblingPN |-> NOPAGE]

\* createInternalNode: a fresh internal node without keys.
createInternalNode ==
    [type |-> "internal", numKeys |-> 0, keys |-> <<>>, pns |-> <<>>]

\* Cell i (counted from 0) of a leaf, read from the page whatever numKeys is.
getCell(node, i) == node.cells[i + 1]
getKeyAt(node, i) ==
    IF node.type = "leaf" THEN node.cells[i + 1][1] ELSE node.keys[i + 1]
getPNAt(node, i) == node.pns[i + 1]

RECURSIVE LeafSearchFrom(_, _, _, _)
\* sort.Search over [lo, hi) with the predicate getKeyAt(i) >= key
LeafSearchFrom(node, key, lo, hi) ==
    IF lo >= hi THEN lo
    ELSE LET h == (lo + hi) \div 2
         IN  IF ~(getKeyAt(node, h) >= key)
             THEN LeafSearchFrom(node, key, h + 1, hi)
             ELSE LeafSearchFrom(node, key, lo, h)

\* LeafNode.search: the first index whose key >= key, numKeys when none.
LeafSearch(node, key) == LeafSearchFrom(node, key, 0, node.numKeys)

RECURSIVE InternalSearchFrom(_, _, _, _)
\* sort.Search over [lo, hi) with the predicate getKeyAt(i) > key
InternalSearchFrom(node, key, lo, hi) ==
    IF lo >= hi THEN lo
    ELSE LET h == (lo + hi) \div 2
         IN  IF ~(getKeyAt(node, h) > key)
             THEN InternalSearchFrom(node, key, h + 1, hi)
             ELSE InternalSearchFrom(node, key, lo, h)

\* InternalNode.search: the first index whose key > key, numKeys when none.
InternalSearch(node, key) == InternalSearchFrom(node, key, 0, node.numKeys)

NoSplit(err) == [isSplit |-> FALSE, key |-> 0, leftPN |-> 0, rightPN |-> 0, err |-> err]

\* A wrong LeafNode.split: the copy to the new sibling starts one cell late.
LeafSplitSkipsMedian(pages, pn) ==
    LET node == pages[pn + 1]
        newPN == Len(pages)
        half == node.numKeys \div 2
        newRight == [createLeafNode EXCEPT
                        !.cells = [j \in 1..ENTRIES_PER_LEAF_NODE |->
                                    IF j <= node.numKeys - half - 1
                                    THEN getCell(node, half + j) ELSE @[j]],
                        !.numKeys = node.numKeys - half - 1,
                        !.rightSiblingPN = node.rightSiblingPN]
        left == [node EXCEPT !.numKeys = half, !.rightSiblingPN = newPN]
    IN  IF node.numKeys < ENTRIES_PER_LEAF_NODE
        THEN [pages |-> pages, split |-> NoSplit(FALSE)]
        ELSE [pages |-> Append([pages EXCEPT ![pn + 1] = left], newRight),
              split |-> [isSplit |-> TRUE, key |-> getKeyAt(node, half),
                         leftPN |-> pn, rightPN |-> newPN, err |-> FALSE]]

\* LeafNode.split: a leaf that has reached ENTRIES_PER_LEAF_NODE keys gives its
\* upper half to a new right sibling and reports the sibling's first key.
LeafSplit(pages, pn) ==
    LET node == pages[pn + 1]
        newPN == Len(pages)
        half == node.numKeys \div 2
        newRight == [createLeafNode EXCEPT
                        !.cells = [j \in 1..ENTRIES_PER_LEAF_NODE |->
                                    IF j <= node.numKeys - half
                                    THEN getCell(node, half + j - 1) ELSE @[j]],
                        !.numKeys = node.numKeys - half,
                        !.rightSiblingPN = node.rightSiblingPN]
        left == [node EXCEPT !.numKeys = half, !.rightSiblingPN = newPN]
    IN  IF node.numKeys < ENTRIES_PER_LEAF_NODE
        THEN [pages |-> pages, split |-> NoSplit(FALSE)]
        ELSE [pages |-> Append([pages EXCEPT ![pn + 1] = left], newRight),
              split |-> [isSplit |-> TRUE, key |-> getKeyAt(newRight, 0),
                         leftPN |-> pn, rightPN |-> newPN, err |-> FALSE]]

\* A wrong LeafNode.insert: an update of a key that is not stored inserts it,
\* and an insert of a stored key overwrites its value.
LeafInsertUpserts(pages, pn, key, value, update) ==
    LET node == pages[pn + 1]
        idx == LeafSearch(node, key)
        present == idx < node.numKeys /\ getKeyAt(node, idx) = key
        updated == [node EXCEPT !.cells[idx + 1] = <<key, value>>]
        shifted == [node EXCEPT
                        !.cells = [j \in 1..ENTRIES_PER_LEAF_NODE |->
                                    IF j - 1 < idx THEN @[j]
                                    ELSE IF j - 1 = idx THEN <<key, value>>
                                    ELSE IF j - 1 <= node.numKeys THEN @[j - 1]
                                    ELSE @[j]],
                        !.numKeys = @ + 1]
    IN  IF present
        THEN LeafSplit([pages EXCEPT ![pn + 1] = updated], pn)
        ELSE LeafSplit([pages EXCEPT ![pn + 1] = shifted], pn)

\* LeafNode.insert(key, value, update)
LeafInsert(pages, pn, key, value, update) ==
    LET node == pages[pn + 1]
        idx == LeafSearch(node, key)
        present == idx < node.numKeys /\ getKeyAt(node, idx) = key
        updated == [node EXCEPT !.cells[idx + 1] = <<key, value>>]
        shifted == [node EXCEPT
                        !.cells = [j \in 1..ENTRIES_PER_LEAF_NODE |->
                                    IF j - 1 < idx THEN @[j]
                                    ELSE IF j - 1 = idx THEN <<key, value>>
                                    ELSE IF j - 1 <= node.numKeys THEN @[j - 1]
                                    ELSE @[j]],
                        !.numKeys = @ + 1]
    IN  IF update
        THEN IF present
             THEN LeafSplit([pages EXCEPT ![pn + 1] = updated], pn)
             ELSE [pages |-> pages, split |-> NoSplit(TRUE)]
        ELSE IF present
             THEN [pages |-> pages, split |-> NoSplit(TRUE)]
             ELSE LeafSplit([pages EXCEPT ![pn + 1] = shifted], pn)

\* A wrong InternalNode.split: the promoted key and its left child are also
\* copied to the new right node (rightStart = half).
InternalSplitKeepsMedian(pages, pn) ==
    LET node == pages[pn + 1]
        newPN == Len(pages)
        half == node.numKeys \div 2
        newRight == [createInternalNode EXCEPT
                        !.keys = [j \in 1..(node.numKeys - half) |->
                                    getKeyAt(node, half + j - 1)],
                        !.pns = [j \in 1..(node.numKeys - half + 1) |->
                                    getPNAt(node, half + j - 1)],
                        !.numKeys = node.numKeys - half]
        left == [node EXCEPT !.numKeys = half,
                             !.keys = SubSeq(@, 1, half),
                             !.pns = SubSeq(@, 1, half + 1)]
    IN  IF node.numKeys < ENTRIES_PER_LEAF_NODE
        THEN [pages |-> pages, split |-> NoSplit(FALSE)]
        ELSE [pages |-> Append([pages EXCEPT ![pn + 1] = left], newRight),
              split |-> [isSplit |-> TRUE, key |-> getKeyAt(node, half),
                         leftPN |-> pn, rightPN |-> newPN, err |-> FALSE]]

\* InternalNode.split: a node that has reached the threshold promotes
\* keys[half] and moves keys[half+1..] and children[half+1..] to a new node.
InternalSplit(pages, pn) ==
    LET node == pages[pn + 1]
        newPN == Len(pages)
        half == node.numKeys \div 2
        rightStart == half + 1
        newRight == [createInternalNode EXCEPT
                        !.keys = [j \in 1..(node.numKeys - rightStart) |->
                                    getKeyAt(node, rightStart + j - 1)],
                        !.pns = [j \in 1..(node.numKeys - rightStart + 1) |->
                                    getPNAt(node, rightStart + j - 1)],
                        !.numKeys = node.numKeys - half - 1]
        left == [node EXCEPT !.numKeys = half,
                             !.keys = SubSeq(@, 1, half),
                             !.pns = SubSeq(@, 1, half + 1)]
    IN  IF node.numKeys < ENTRIES_PER_LEAF_NODE
        THEN [pages |-> pages, split |-> NoSplit(FALSE)]
        ELSE [pages |-> Append([pages EXCEPT ![pn + 1] = left], newRight),
              split |-> [isSplit |-> TRUE, key |-> getKeyAt(node, half),
                         leftPN |-> pn, rightPN |-> newPN, err |-> FALSE]]

\* InternalNode.insertSplit: install the separator and the two page numbers
\* at the position search gives, then split this node if it is full.
InsertSplit(pages, pn, split) ==
    LET node == pages[pn + 1]
        idx == InternalSearch(node, split.key)
        grown == [node EXCEPT
                    !.keys = [j \in 1..(node.numKeys + 1) |->
                                IF j - 1 < idx THEN @[j]
                                ELSE IF j - 1 = idx THEN split.key
                                ELSE @[j - 1]],
                    !.pns = [j \in 1..(node.numKeys + 2) |->
                                IF j - 1 < idx THEN @[j]
                                ELSE IF j - 1 = idx THEN split.leftPN
                                ELSE IF j - 1 = idx + 1 THEN split.rightPN
                                ELSE @[j - 1]],
                    !.numKeys = @ + 1]
    IN  IF ~split.isSplit
        THEN [pages |-> pages, split |-> NoSplit(split.err)]
        ELSE InternalSplit([pages EXCEPT ![pn + 1] = grown], pn)

RECURSIVE NodeInsert(_, _, _, _, _)
\* Node.insert: LeafNode.insert at a leaf, InternalNode.insert above it.
NodeInsert(pages, pn, key, value, update) ==
    LET node == pages[pn + 1]
    IN  IF node.type = "leaf"
        THEN LeafInsert(pages, pn, key, value, update)
        ELSE LET idx == InternalSearch(node, key)
                 r == NodeInsert(pages, getPNAt(node, idx), key, value, update)
             IN  IF r.split.isSplit THEN InsertSplit(r.pages, pn, r.split) ELSE r

\* A wrong LeafNode.delete: the cell at the search index is removed without
\* comparing its key with the key to delete.
LeafDeleteUnchecked(pages, pn, key) ==
    LET node == pages[pn + 1]
        index == LeafSearch(node, key)
    IN  IF index >= node.numKeys
        THEN pages
        ELSE [pages EXCEPT ![pn + 1] =
                [node EXCEPT
                    !.cells = [j \in 1..ENTRIES_PER_LEAF_NODE |->
                                IF j - 1 >= index /\ j - 1 < node.numKeys - 1
                                THEN @[j + 1] ELSE @[j]],
                    !.numKeys = @ - 1]]

\* LeafNode.delete: shift-remove the key when it is there.
LeafDelete(pages, pn, key) ==
    LET node == pages[pn + 1]
        index == LeafSearch(node, key)
    IN  IF index >= node.numKeys \/ getKeyAt(node, index) # key
        THEN pages
        ELSE [pages EXCEPT ![pn + 1] =
                [node EXCEPT
                    !.cells = [j \in 1..ENTRIES_PER_LEAF_NODE |->
                                IF j - 1 >= index /\ j - 1 < node.numKeys - 1
                                THEN @[j + 1] ELSE @[j]],
                    !.numKeys = @ - 1]]

RECURSIVE NodeDelete(_, _, _)
\* Node.delete: descend to the leaf, no rebalancing.
NodeDelete(pages, pn, key) ==
    LET node == pages[pn + 1]
    IN  IF node.type = "leaf"
        THEN LeafDelete(pages, pn, key)
        ELSE NodeDelete(pages, getPNAt(node, InternalSearch(node, key)), key)

RECURSIVE NodeGet(_, _, _)
\* Node.get
NodeGet(pages, pn, key) ==
    LET node == pages[pn + 1]
    IN  IF node.type = "leaf"
        THEN LET index == LeafSearch(node, key)
             IN  IF index >= node.numKeys \/ getKeyAt(node, index) # key
                 THEN [found |-> FALSE, value |-> 0]
                 ELSE [found |-> TRUE, value |-> getCell(node, index)[2]]
        ELSE NodeGet(pages, getPNAt(node, InternalSearch(node, key)), key)

RECURSIVE keyToNodeEntry(_, _, _)
\* Node.keyToNodeEntry: the leaf the key belongs to and the key's index in it.
keyToNodeEntry(pages, pn, key) ==
    LET node == pages[pn + 1]
    IN  IF node.type = "leaf"
        THEN [pn |-> pn, idx |-> LeafSearch(node, key)]
        ELSE keyToNodeEntry(pages, getPNAt(node, InternalSearch(node, key)), key)

\* A new index: the root is one empty leaf.
NewBTree == [rootPN |-> 0, pages |-> <<createLeafNode>>]

RECURSIVE SplitSizes(_, _, _, _, _)
\* history: the numKeys at which InternalNode.split split the internal nodes
\* on the path of this insert (the value the threshold test saw)
SplitSizes(pages, pn, key, value, update) ==
    LET node == pages[pn + 1]
        child == getPNAt(node, InternalSearch(node, key))
        r == NodeInsert(pages, child, key, value, update)
        below == SplitSizes(pages, child, key, value, update)
    IN  IF node.type = "leaf" THEN {}
        ELSE IF r.split.isSplit /\ InsertSplit(r.pages, pn, r.split).split.isSplit
             THEN below \cup {node.numKeys + 1}
             ELSE below

\* BTreeIndex.Insert / Update: insert at the root; a split that reaches the
\* root makes a new root with the two halves as its children.
BTreeInsert(t, key, value, update) ==
    LET r == NodeInsert(t.pages, t.rootPN, key, value, update)
        newRoot == [createInternalNode EXCEPT
                        !.numKeys = 1,
                        !.keys = <<r.split.key>>,
                        !.pns = <<r.split.leftPN, r.split.rightPN>>]
    IN  IF r.split.err THEN [err |-> TRUE, t |-> [t EXCEPT !.pages = r.pages]]
        ELSE IF r.split.isSplit
             THEN [err |-> FALSE,
                   t |-> [rootPN |-> Len(r.pages), pages |-> Append(r.pages, newRoot)]]
             ELSE [err |-> FALSE, t |-> [t EXCEPT !.pages = r.pages]]

BTreeDelete(t, key) == [t EXCEPT !.pages = NodeDelete(t.pages, t.rootPN, key)]

BTreeFind(t, key) == NodeGet(t.pages, t.rootPN, key)

\* BTreeIndex.TableFind: a cursor at the key's position in its leaf.
TableFind(t, key) ==
    LET e == keyToNodeEntry(t.pages, t.rootPN, key)
    IN  [curNode |-> e.pn, cellnum |-> e.idx,
         isEnd |-> t.pages[e.pn + 1].numKeys = 0]

\* BTreeCursor.GetEntry: an error at the end, else the cell under the cursor.
GetEntry(t, cursor) ==
    IF cursor.isEnd THEN [err |-> TRUE, entry |-> <<0, 0>>]
    ELSE [err |-> FALSE, entry |-> getCell(t.pages[cursor.curNode + 1], cursor.cellnum)]

\* A wrong StepForward: at the end of a leaf it never follows the sibling.
StepForwardNoSibling(t, cursor) ==
    LET curNode == t.pages[cursor.curNode + 1]
        stepped == [cursor EXCEPT !.cellnum = @ + 1]
    IN  IF cursor.isEnd
        THEN [err |-> TRUE, cursor |-> cursor]
        ELSE [err |-> FALSE,
              cursor |-> IF stepped.cellnum >= curNode.numKeys
                         THEN [stepped EXCEPT !.isEnd = TRUE] ELSE stepped]

RECURSIVE StepForward(_, _)
\* BTreeCursor.StepForward
StepForward(t, cursor) ==
    LET curNode == t.pages[cursor.curNode + 1]
        nextPN == curNode.rightSiblingPN
        moved == [curNode |-> nextPN, cellnum |-> 0,
                  isEnd |-> (0 = t.pages[nextPN + 1].numKeys)]
        stepped == [cursor EXCEPT !.cellnum = @ + 1]
    IN  IF cursor.isEnd
        THEN IF nextPN < 0 THEN [err |-> TRUE, cursor |-> cursor]
             ELSE IF moved.isEnd THEN StepForward(t, moved)
             ELSE [err |-> FALSE, cursor |-> moved]
        ELSE [err |-> FALSE,
              cursor |-> IF stepped.cellnum >= curNode.numKeys
                         THEN [stepped EXCEPT !.isEnd = TRUE] ELSE stepped]

RECURSIVE RangeLoop(_, _, _, _, _)
\* the loop of TableFindRange
RangeLoop(t, cursor, entry, endKey, ret) ==
    IF ~cursor.isEnd /\ entry[1] < endKey
    THEN LET s == StepForward(t, cursor)
             g == GetEntry(t, s.cursor)
         IN  IF s.err THEN [err |-> TRUE, entries |-> <<>>]
             ELSE IF g.err THEN [err |-> TRUE, entries |-> <<>>]
             ELSE RangeLoop(t, s.cursor, g.entry, endKey, Append(ret, entry))
    ELSE [err |-> FALSE, entries |-> ret]

\* BTreeIndex.TableFindRange(startKey, endKey)
TableFindRange(t, startKey, endKey) ==
    LET cursor == TableFind(t, startKey)
        g == GetEntry(t, cursor)
    IN  IF g.err THEN [err |-> TRUE, entries |-> <<>>]
        ELSE RangeLoop(t, cursor, g.entry, endKey, <<>>)

RECURSIVE LeftmostLeaf(_, _)
\* the loop of TableStart: down the leftmost children to a leaf
LeftmostLeaf(pages, pn) ==
    IF pages[pn + 1].type = "leaf" THEN pn
    ELSE LeftmostLeaf(pages, getPNAt(pages[pn + 1], 0))

\* BTreeIndex.TableStart: a cursor on cell 0 of the leftmost leaf.
TableStart(t) ==
    LET pn == LeftmostLeaf(t.pages, t.rootPN)
    IN  [curNode |-> pn, cellnum |-> 0, isEnd |-> (t.pages[pn + 1].numKeys = 0)]

RECURSIVE StepN(_, _, _)
\* The cursor after k calls of StepForward (a call that fails leaves it as it is).
StepN(t, cursor, k) ==
    IF k = 0 THEN cursor ELSE StepN(t, StepForward(t, cursor).cursor, k - 1)

RECURSIVE buildLoop(_, _, _)
\* The loop of buildHashIndex: the entry under the cursor is read unless
\* IsEnd, then StepForward is called; its error ends the loop.
buildLoop(t, cursor, out) ==
    LET got == IF ~cursor.isEnd THEN Append(out, GetEntry(t, cursor).entry) ELSE out
        s == StepForward(t, cursor)
    IN  IF s.err THEN got ELSE buildLoop(t, s.cursor, got)

NumPagesOf(t, type) == Cardinality({i \in DOMAIN t.pages : t.pages[i].type = type})

InitBTree ==
    /\ bt = NewBTree
    /\ bExpect = [k \in BKeys |-> 0]
    /\ bPure = TRUE
    /\ bLast = [op |-> "none", key |-> 0, err |-> FALSE,
                leafSplit |-> FALSE, internalSplit |-> FALSE, rootSplit |-> FALSE,
                splitAt |-> {}]
    /\ bOps = 0

BInsert(key, value, update) ==
    /\ bOps < MaxBOps
    /\ bOps' = bOps + 1
    /\ LET r == BTreeInsert(bt, key, value, update)
           root == r.t.rootPN # bt.rootPN
       IN  /\ bt' = r.t
           /\ bExpect' = IF r.err THEN bExpect ELSE [bExpect EXCEPT ![key] = value]
           /\ bLast' = [op |-> IF update THEN "update" ELSE "insert",
                        key |-> key, err |-> r.err,
                        leafSplit |-> NumPagesOf(r.t, "leaf") > NumPagesOf(bt, "leaf"),
                        internalSplit |->
                            NumPagesOf(r.t, "internal") >
                                NumPagesOf(bt, "internal") + (IF root THEN 1 ELSE 0),
                        rootSplit |-> root,
                        splitAt |-> SplitSizes(bt.pages, bt.rootPN, key, value, update)]
    /\ bPure' = (bPure /\ ~update /\ bExpect[key] = 0)

BDelete(key) ==
    /\ bOps < MaxBOps
    /\ bOps' = bOps + 1
    /\ bt' = BTreeDelete(bt, key)
    /\ bExpect' = [bExpect EXCEPT ![key] = 0]
    /\ bLast' = [op |-> "delete", key |-> key, err |-> FALSE,
                 leafSplit |-> FALSE, internalSplit |-> FALSE, rootSplit |-> FALSE,
                 splitAt |-> {}]
    /\ bPure' = FALSE

BInsertAny == \E k \in BKeys, v \in Vals : BInsert(k, v, FALSE)
BUpdateAny == \E k \in BKeys, v \in Vals : BInsert(k, v, TRUE)
BDeleteAny == \E k \in BKeys : BDelete(k)

NextBTree ==
    \/ BInsertAny
    \/ BUpdateAny
    \/ BDeleteAny

(***************************************************************************)
(* The B+-tree under two threads: one runs Insert, the other reads with    *)
(* get and TableFind. No method of a node and no cursor function takes a   *)
(* latch, so the reading thread can run at any point of the insert; the    *)
(* point modelled is the return of LeafNode.insert to its caller.          *)
(***************************************************************************)

RECURSIVE LeafOf(_, _, _)
\* InternalNode.insert: the descent by search and getChildAt to the leaf
LeafOf(pages, pn, key) ==
    LET node == pages[pn + 1]
    IN  IF node.type = "leaf" THEN pn
        ELSE LeafOf(pages, getPNAt(node, InternalSearch(node, key)), key)

\* The pages when LeafNode.insert has returned its Split to the caller: the
\* leaf holds the key and, when it was full, has given its upper half to a
\* new sibling that no parent names yet.
LeafInserted(t, key, value) ==
    [t EXCEPT !.pages = LeafInsert(t.pages, LeafOf(t.pages, t.rootPN, key),
                                   key, value, FALSE).pages]

InitBTreeConc ==
    /\ bcW = [pc |-> "idle", key |-> 0, value |-> 0, before |-> NewBTree]
    /\ bcR = [op |-> "none", key |-> 0, found |-> FALSE, stored |-> FALSE]

\* Insert, down to the return of LeafNode.insert
CWInsertLeaf ==
    \E key \in BKeys, value \in Vals :
        /\ bcW.pc = "idle" /\ bOps < MaxBOps
        /\ bOps' = bOps + 1
        /\ bt' = LeafInserted(bt, key, value)
        /\ bcW' = [pc |-> "leaf_done", key |-> key, value |-> value, before |-> bt]
        /\ UNCHANGED <<bcR, bExpect, bPure, bLast>>

\* Insert, the rest: insertSplit in the ancestors and the new root
CWInsertRest ==
    /\ bcW.pc = "leaf_done"
    /\ bt' = BTreeInsert(bcW.before, bcW.key, bcW.value, FALSE).t
    /\ bcW' = [bcW EXCEPT !.pc = "idle"]
    /\ UNCHANGED <<bcR, bExpect, bPure, bLast, bOps>>

\* the tree as it was when the running Insert began
BeforeInsert == IF bcW.pc = "idle" THEN bt ELSE bcW.before

\* the other thread: get(key) from the root
CRGet ==
    \E key \in BKeys :
        /\ bcR' = [op |-> "get", key |-> key,
                   found |-> NodeGet(bt.pages, bt.rootPN, key).found,
                   stored |-> BTreeFind(BeforeInsert, key).found]
        /\ UNCHANGED <<bt, bcW, bExpect, bPure, bLast, bOps>>

\* the other thread: TableFind(key) and GetEntry at the cursor
CRTableFind ==
    \E key \in BKeys :
        /\ LET cursor == TableFind(bt, key)
               leaf == bt.pages[cursor.curNode + 1]
           IN  bcR' = [op |-> "TableFind", key |-> key,
                       found |-> /\ cursor.cellnum < leaf.numKeys
                                 /\ GetEntry(bt, cursor).entry[1] = key,
                       stored |-> BTreeFind(BeforeInsert, key).found]
        /\ UNCHANGED <<bt, bcW, bExpect, bPure, bLast, bOps>>

NextBTreeConc ==
    \/ CWInsertLeaf
    \/ CWInsertRest
    \/ CRGet
    \/ CRTableFind

(***************************************************************************)
(* RecoveryManager.Redo of an insert or update record, on each index kind. *)
(* db.HandleInsert and db.HandleUpdate call the index's Insert and Update  *)
(* and return their error.                                                 *)
(***************************************************************************)

\* Redo on a hash index. Insert returns no error, so an insert record is
\* never retried as an update; an update that fails is retried as an insert.
RedoHash(t, action, key, newval) ==
    IF action = "insert"
    THEN [err |-> FALSE, t |-> Insert(t, key, newval)]
    ELSE LET r == Update(t, key, newval)
         IN  IF r.err THEN [err |-> FALSE, t |-> Insert(t, key, newval)] ELSE r

\* Redo on a B+-tree index: an insert that fails is retried as an update, an
\* update that fails is retried as an insert.
RedoBTree(t, action, key, newval) ==
    LET r == BTreeInsert(t, key, newval, action = "update")
    IN  IF r.err THEN BTreeInsert(t, key, newval, action # "update") ELSE r

(***************************************************************************)
(* Transaction manager, waits-for graph and lock manager.                  *)
(***************************************************************************)

\* Graph.AddEdge: append.
AddEdge(g, from, to) == Append(g, <<from, to>>)

RECURSIVE AddEdges(_, _, _)
AddEdges(g, from, tos) ==
    IF tos = <<>> THEN g ELSE AddEdges(AddEdge(g, from, Head(tos)), from, Tail(tos))

\* removeEdge(l, i): the last edge takes the place of edge i.
removeEdge(l, i) ==
    [j \in 1..(Len(l) - 1) |-> IF j = i THEN l[Len(l)] ELSE l[j]]

RECURSIVE EdgeIdx(_, _, _)
EdgeIdx(g, e, i) ==
    IF i > Len(g) THEN 0 ELSE IF g[i] = e THEN i ELSE EdgeIdx(g, e, i + 1)

\* Graph.RemoveEdge: remove the first copy of the edge, if there is one.
RemoveEdge(g, from, to) ==
    LET i == EdgeIdx(g, <<from, to>>, 1)
    IN  IF i = 0 THEN g ELSE removeEdge(g, i)

RECURSIVE RemoveEdges(_, _)
\* the deferred RemoveEdge calls of Lock run last-added first
RemoveEdges(g, es) ==
    IF es = <<>> THEN g
    ELSE RemoveEdges(RemoveEdge(g, es[Len(es)][1], es[Len(es)][2]),
                     SubSeq(es, 1, Len(es) - 1))

\* A wrong dfs: it looks at the edges out of u and goes no deeper.
dfsOneLevel(g, visited, u) ==
    \E i \in DOMAIN g : g[i][1] = u /\ g[i][2] \in visited

RECURSIVE dfs(_, _, _)
\* dfs(graph, visited, u): some edge out of u leads to a visited vertex,
\* directly or through unvisited ones.
dfs(g, visited, u) ==
    \E i \in DOMAIN g :
        /\ g[i][1] = u
        /\ \/ g[i][2] \in visited
           \/ dfs(g, visited \cup {g[i][2]}, g[i][2])

\* Graph.DetectCycle
DetectCycle(g) ==
    \E u \in {g[i][1] : i \in DOMAIN g} \cup {g[i][2] : i \in DOMAIN g} :
        dfs(g, {u}, u)

GNodes == 1..MaxGNode

\* The graph on its own: AddEdge and RemoveEdge with any two transactions.
GAddEdge ==
    \E from, to \in GNodes :
        /\ Len(edges) < MaxEdges
        /\ edges' = AddEdge(edges, from, to)
        /\ UNCHANGED <<transactions, resources, lmTable, pc, req, myEdges, hist>>

GRemoveEdge ==
    \E from, to \in GNodes :
        /\ EdgeIdx(edges, <<from, to>>, 1) # 0
        /\ edges' = RemoveEdge(edges, from, to)
        /\ UNCHANGED <<transactions, resources, lmTable, pc, req, myEdges, hist>>

NextGraph ==
    \/ GAddEdge
    \/ GRemoveEdge

\* TransactionManager.discoverTransactions: the transactions whose recorded
\* mode for the resource conflicts with the requested mode.
discoverTransactions(k, lType) ==
    {t \in transactions :
        resources[t][k] # "none" /\ (resources[t][k] = "W" \/ lType = "W")}

\* the set as a sequence, in some order
RECURSIVE SeqOf(_)
SeqOf(S) == IF S = {} THEN <<>> ELSE LET x == CHOOSE y \in S : TRUE
                                     IN  <<x>> \o SeqOf(S \ {x})

\* LockManager.Lock can return: the mode is compatible with the other holders.
LMCompatible(k, t, lType) ==
    \A u \in Tx \ {t} :
        lmTable[k][u] = "none" \/ (lmTable[k][u] = "R" /\ lType = "R")

\* the alternative to LMRequestMode in which every request reaches the lock
\* manager as a read request
LMRequestModeShared(lType) == "R"

\* The mode Lock hands to the lock manager: the requested one.
LMRequestMode(lType) == lType

NoRequest == [key |-> 0, mode |-> "none"]

InitLock ==
    /\ transactions = {}
    /\ resources = [t \in Tx |-> [k \in LKeys |-> "none"]]
    /\ edges = <<>>
    /\ lmTable = [k \in LKeys |-> [t \in Tx |-> "none"]]
    /\ pc = [t \in Tx |-> "idle"]
    /\ req = [t \in Tx |-> NoRequest]
    /\ myEdges = [t \in Tx |-> <<>>]
    /\ hist = [t \in Tx |-> <<>>]

Returned(t, k, lType, res) ==
    /\ hist' = [hist EXCEPT ![t] =
                    Append(@, [key |-> k, mode |-> lType, res |-> res,
                               holding |-> resources[t]])]
    /\ pc' = [pc EXCEPT ![t] = "idle"]
    /\ req' = [req EXCEPT ![t] = NoRequest]

\* A wrong TransactionManager.Begin: the id gets a new, empty transaction
\* also when it is already in the table.
BeginOverwrites(t) ==
    [err |-> FALSE,
     transactions |-> transactions \cup {t},
     resources |-> [resources EXCEPT ![t] = [k \in LKeys |-> "none"]]]

\* TransactionManager.Begin: an error when the id is in the table, else a new
\* transaction with an empty resources map.
Begin(t) ==
    IF t \in transactions
    THEN [err |-> TRUE, transactions |-> transactions, resources |-> resources]
    ELSE [err |-> FALSE,
          transactions |-> transactions \cup {t},
          resources |-> [resources EXCEPT ![t] = [k \in LKeys |-> "none"]]]

\* A client calls Begin.
TMBegin(t) ==
    /\ pc[t] = "idle"
    /\ transactions' = Begin(t).transactions
    /\ resources' = Begin(t).resources
    /\ UNCHANGED <<edges, lmTable, pc, req, myEdges, hist>>

\* TransactionManager.Lock, up to the AddEdge calls: the early returns, then
\* conflict discovery and one edge to every conflicting transaction.
TMLockStart(t, k, lType) ==
    /\ pc[t] = "idle"
    /\ Len(hist[t]) < MaxTxLocks
    /\ IF t \notin transactions
       THEN /\ Returned(t, k, lType, "not found")
            /\ UNCHANGED <<transactions, resources, edges, lmTable, myEdges>>
       ELSE IF resources[t][k] # "none"
       THEN /\ Returned(t, k, lType,
                    IF resources[t][k] = "W" \/ lType = "R"
                    THEN "held" ELSE "illegal lock type")
            /\ UNCHANGED <<transactions, resources, edges, lmTable, myEdges>>
       ELSE LET conflicts == SeqOf(discoverTransactions(k, lType) \ {t})
            IN  /\ edges' = AddEdges(edges, t, conflicts)
                /\ myEdges' = [myEdges EXCEPT ![t] =
                                    [i \in DOMAIN conflicts |-> <<t, conflicts[i]>>]]
                /\ pc' = [pc EXCEPT ![t] = "detect"]
                /\ req' = [req EXCEPT ![t] = [key |-> k, mode |-> lType]]
                /\ UNCHANGED <<transactions, resources, lmTable, hist>>

\* Lock: DetectCycle over the graph as it is now.
TMLockDetect(t) ==
    /\ pc[t] = "detect"
    /\ pc' = [pc EXCEPT ![t] = IF DetectCycle(edges) THEN "cycle" ELSE "wait"]
    /\ UNCHANGED <<transactions, resources, edges, lmTable, req, myEdges, hist>>

\* Lock: return the deadlock error; the deferred RemoveEdge calls run.
TMLockFail(t) ==
    /\ pc[t] = "cycle"
    /\ edges' = RemoveEdges(edges, myEdges[t])
    /\ myEdges' = [myEdges EXCEPT ![t] = <<>>]
    /\ Returned(t, req[t].key, req[t].mode, "deadlock")
    /\ UNCHANGED <<transactions, resources, lmTable>>

\* Lock: the lock manager's Lock returns, once the mode is compatible.
TMLockAcquire(t) ==
    /\ pc[t] = "wait"
    /\ LMCompatible(req[t].key, t, LMRequestMode(req[t].mode))
    /\ lmTable' = [lmTable EXCEPT ![req[t].key][t] = LMRequestMode(req[t].mode)]
    /\ pc' = [pc EXCEPT ![t] = "acquired"]
    /\ UNCHANGED <<transactions, resources, edges, req, myEdges, hist>>

\* Lock: record the mode in the transaction's resources and return; the
\* deferred RemoveEdge calls run.
TMLockRecord(t) ==
    /\ pc[t] = "acquired"
    /\ resources' = [resources EXCEPT ![t][req[t].key] = req[t].mode]
    /\ edges' = RemoveEdges(edges, myEdges[t])
    /\ myEdges' = [myEdges EXCEPT ![t] = <<>>]
    /\ Returned(t, req[t].key, req[t].mode, "granted")
    /\ UNCHANGED <<transactions, lmTable>>

\* TransactionManager.Unlock: the outcomes the call can have. The loop visits
\* the recorded resources in map order and returns at the first entry of
\* another mode, or removes the resource when it comes to it first.
Unlock(t, k, lType) ==
    {[res |-> "ok",
      resources |-> [resources EXCEPT ![t][k] = "none"],
      lmTable |-> [lmTable EXCEPT ![k][t] = "none"]] :
        x \in {j \in {k} : resources[t][k] = lType}}
    \cup
    {[res |-> "lock type mismatch", resources |-> resources, lmTable |-> lmTable] :
        x \in {j \in LKeys : resources[t][j] \notin {"none", lType}}}
    \cup
    {[res |-> "resource not found", resources |-> resources, lmTable |-> lmTable] :
        x \in {j \in {k} : /\ resources[t][k] = "none"
                           /\ \A i \in LKeys : resources[t][i] \in {"none", lType}}}

\* A client calls Unlock.
TMUnlock(t, k, lType) ==
    /\ pc[t] = "idle"
    /\ t \in transactions
    /\ \E o \in Unlock(t, k, lType) :
            /\ resources' = o.resources
            /\ lmTable' = o.lmTable
    /\ UNCHANGED <<transactions, edges, pc, req, myEdges, hist>>

\* A wrong TransactionManager.Commit: the transaction is deleted and its
\* resources stay locked in the lock manager.
CommitKeepsLocks(t) ==
    IF t \notin transactions
    THEN [err |-> TRUE, transactions |-> transactions, resources |-> resources,
          lmTable |-> lmTable]
    ELSE [err |-> FALSE,
          transactions |-> transactions \ {t},
          resources |-> [resources EXCEPT ![t] = [k \in LKeys |-> "none"]],
          lmTable |-> lmTable]

\* TransactionManager.Commit: unlock every recorded resource, drop the
\* transaction (and its resources map with it); an error when the id is not
\* in the table.
Commit(t) ==
    IF t \notin transactions
    THEN [err |-> TRUE, transactions |-> transactions, resources |-> resources,
          lmTable |-> lmTable]
    ELSE [err |-> FALSE,
          transactions |-> transactions \ {t},
          resources |-> [resources EXCEPT ![t] = [k \in LKeys |-> "none"]],
          lmTable |-> [k \in LKeys |->
                        IF resources[t][k] # "none"
                        THEN [lmTable[k] EXCEPT ![t] = "none"] ELSE lmTable[k]]]

\* A client calls Commit.
TMCommit(t) ==
    /\ pc[t] = "idle"
    /\ transactions' = Commit(t).transactions
    /\ resources' = Commit(t).resources
    /\ lmTable' = Commit(t).lmTable
    /\ UNCHANGED <<edges, pc, req, myEdges, hist>>

TMBeginAny == \E t \in Tx : TMBegin(t)
TMLockStartAny == \E t \in Tx, k \in LKeys, m \in Modes : TMLockStart(t, k, m)
TMLockDetectAny == \E t \in Tx : TMLockDetect(t)
TMLockFailAny == \E t \in Tx : TMLockFail(t)
TMLockAcquireAny == \E t \in Tx : TMLockAcquire(t)
TMLockRecordAny == \E t \in Tx : TMLockRecord(t)
TMUnlockAny == \E t \in Tx, k \in LKeys, m \in Modes : TMUnlock(t, k, m)
TMCommitAny == \E t \in Tx : TMCommit(t)

NextLock ==
    \/ TMBeginAny
    \/ TMLockStartAny
    \/ TMLockDetectAny
    \/ TMLockFailAny
    \/ TMLockAcquireAny
    \/ TMLockRecordAny
    \/ TMUnlockAny
    \/ TMCommitAny

(***************************************************************************)
(* Recovery manager: log file, checkpoint, priming, recovery, rollback.    *)
(* There is one table; its keys are the lockable keys.  The log file is    *)
(* kept outside the database folder.                                       *)
(***************************************************************************)

NoRecord ==
    [type |-> "none", id |-> 0, action |-> "none", key |-> 0,
     oldval |-> 0, newval |-> 0, ids |-> {}]

startLog(t) == [NoRecord EXCEPT !.type = "start", !.id = t]

commitLog(t) == [NoRecord EXCEPT !.type = "commit", !.id = t]

editLog(t, action, key, oldval, newval) ==
    [NoRecord EXCEPT !.type = "edit", !.id = t, !.action = action,
                     !.key = key, !.oldval = oldval, !.newval = newval]

checkpointLog(ids) == [NoRecord EXCEPT !.type = "checkpoint", !.ids = ids]

EmptyDB == [k \in LKeys |-> 0]

NoLocks == [k \in LKeys |-> "none"]

NoRecover == [len |-> 0, i |-> 0, undoSet |-> {}]

NoRollback == [tx |-> 0, logs |-> <<>>, i |-> 0]

NoPre == [keys |-> {}, pre |-> EmptyDB]

Actions == {"insert", "update", "delete"}

\* RecoveryManager.Edit, the stack: the copy that stores the appended slice
EditStackStored(stack, l) == IF stack # <<>> THEN Append(stack, l) ELSE stack

\* RecoveryManager.Edit, the stack: the copy that appends to a local slice
\* and never stores it back in the map
EditStackLocal(stack, l) == stack

EditStack(stack, l) ==
    IF editBuild = "stored" THEN EditStackStored(stack, l) ELSE EditStackLocal(stack, l)

\* the process serves clients
Running == rpc \in {"running", "recovered"}

\* the locks of t released in the lock manager (TransactionManager.Commit)
ReleaseAll(t) ==
    [k \in LKeys |->
        IF resources[t][k] # "none" THEN [lmTable[k] EXCEPT ![t] = "none"]
        ELSE lmTable[k]]

\* TransactionManager.Lock(t, k, W_LOCK) returns at once: t holds k in W
\* already, or nobody else holds k
CanLock(t, k) == resources[t][k] = "W" \/ LMCompatible(k, t, "W")

\* the index operation of an edit fails: insert of a present key, update or
\* delete of an absent one
HandleFails(action, k) ==
    IF action = "insert" THEN dbMem[k] # 0 ELSE dbMem[k] = 0

\* an edit applied to the table
ApplyEdit(d, action, k, v) == [d EXCEPT ![k] = IF action = "delete" THEN 0 ELSE v]

\* HandleInsert / HandleUpdate / HandleDelete of the recovery package: take
\* the W lock, write the edit record, change the table.
TxHandle(t, action, k, v) ==
    /\ t \in transactions
    /\ CanLock(t, k)
    /\ resources' = [resources EXCEPT ![t][k] = "W"]
    /\ lmTable' = [lmTable EXCEPT ![k][t] = "W"]
    /\ IF HandleFails(action, k)
       THEN UNCHANGED <<dbMem, rlog, txStack>>
       ELSE LET l == editLog(t, action, k, dbMem[k],
                             IF action = "delete" THEN 0 ELSE v)
            IN  /\ rlog' = Append(rlog, l)
                /\ txStack' = [txStack EXCEPT ![t] = EditStack(@, l)]
                /\ dbMem' = ApplyEdit(dbMem, action, k, v)

\* RecoveryManager.Undo: the inverse edit
UndoAction(l) ==
    IF l.action = "insert" THEN "delete"
    ELSE IF l.action = "delete" THEN "insert" ELSE "update"

\* RecoveryManager.Redo of an edit record fails: a delete of an absent key
\* (an insert falls back to update, an update to insert)
RedoFails(d, l) == l.action = "delete" /\ d[l.key] = 0

RECURSIVE LastCheckpoint(_, _)
LastCheckpoint(logs, i) ==
    IF i < 1 THEN 1
    ELSE IF logs[i].type = "checkpoint" THEN i ELSE LastCheckpoint(logs, i - 1)

\* readLogs: the position of the latest checkpoint record, the first record
\* when there is none
readLogs(logs) == LastCheckpoint(logs, Len(logs))

InitRec ==
    /\ rlog = <<>>
    /\ dbMem = EmptyDB
    /\ dbDisk = EmptyDB
    /\ snapshot = [exists |-> TRUE, data |-> EmptyDB]
    /\ txStack = [t \in Tx |-> <<>>]
    /\ rpc = "running"
    /\ rec = NoRecover
    /\ rb = NoRollback
    /\ editBuild \in {"stored", "local"}
    /\ crashLog = <<>>
    /\ crashes = 0
    /\ txPre = [t \in Tx |-> NoPre]
    /\ rLast = 0

\* transaction begin: TransactionManager.Begin, RecoveryManager.Start
RStart(t) ==
    /\ Running /\ Len(rlog) < MaxLog
    /\ t \notin transactions
    /\ transactions' = transactions \cup {t}
    /\ resources' = [resources EXCEPT ![t] = NoLocks]
    /\ rlog' = Append(rlog, startLog(t))
    /\ txStack' = [txStack EXCEPT ![t] = <<startLog(t)>>]
    /\ txPre' = [txPre EXCEPT ![t] = NoPre]
    /\ rpc' = "running" /\ rLast' = 0
    /\ UNCHANGED <<lmTable, dbMem, dbDisk, snapshot, rec, rb, editBuild,
                   crashLog, crashes>>

\* insert / update / delete by a client inside its transaction
REdit(t, action, k, v) ==
    /\ Running /\ Len(rlog) < MaxLog
    /\ rb.tx # t
    /\ TxHandle(t, action, k, v)
    /\ txPre' = IF HandleFails(action, k) \/ k \in txPre[t].keys THEN txPre
                ELSE [txPre EXCEPT ![t].keys = @ \cup {k}, ![t].pre[k] = dbMem[k]]
    /\ rpc' = "running" /\ rLast' = 0
    /\ UNCHANGED <<transactions, dbDisk, snapshot, rec, rb, editBuild,
                   crashLog, crashes>>

\* transaction commit: RecoveryManager.Commit, TransactionManager.Commit
RCommit(t) ==
    /\ Running /\ Len(rlog) < MaxLog
    /\ t \in transactions /\ rb.tx # t
    /\ rlog' = Append(rlog, commitLog(t))
    /\ txStack' = [txStack EXCEPT ![t] = <<>>]
    /\ lmTable' = ReleaseAll(t)
    /\ resources' = [resources EXCEPT ![t] = NoLocks]
    /\ transactions' = transactions \ {t}
    /\ rpc' = "running" /\ rLast' = 0
    /\ UNCHANGED <<dbMem, dbDisk, snapshot, rec, rb, editBuild, crashLog,
                   crashes, txPre>>

\* A wrong Rollback: the commit record is written at entry, before the loop
\* that undoes the edits.
RRollbackStartCommitsFirst(t) ==
    /\ Running /\ Len(rlog) < MaxLog
    /\ t \in transactions /\ rb = NoRollback
    /\ rb' = [tx |-> t, logs |-> txStack[t], i |-> Len(txStack[t])]
    /\ rlog' = Append(rlog, commitLog(t))
    /\ rpc' = "running" /\ rLast' = 0
    /\ UNCHANGED <<transactions, resources, lmTable, dbMem, dbDisk,
                   snapshot, txStack, rec, editBuild, crashLog, crashes, txPre>>

\* RecoveryManager.Rollback, entry: read the stack of the transaction
RRollbackStart(t) ==
    /\ Running
    /\ t \in transactions /\ rb = NoRollback
    /\ rb' = [tx |-> t, logs |-> txStack[t], i |-> Len(txStack[t])]
    /\ rpc' = "running" /\ rLast' = 0
    /\ UNCHANGED <<transactions, resources, lmTable, rlog, dbMem, dbDisk,
                   snapshot, txStack, rec, editBuild, crashLog, crashes, txPre>>

\* Rollback, one turn of the loop: Undo the record at i (never the first)
RRollbackStep ==
    /\ Running /\ Len(rlog) < MaxLog
    /\ rb.tx # 0 /\ rb.i > 1
    /\ LET l == rb.logs[rb.i]
       IN  /\ TxHandle(l.id, UndoAction(l), l.key, l.oldval)
           /\ rb' = IF HandleFails(UndoAction(l), l.key) THEN NoRollback
                    ELSE [rb EXCEPT !.i = @ - 1]
    /\ rpc' = "running" /\ rLast' = 0
    /\ UNCHANGED <<transactions, dbDisk, snapshot, rec, editBuild, crashLog,
                   crashes, txPre>>

\* Rollback, after the loop: the commit record, the stack discarded, commit
\* in the transaction manager
RRollbackEnd ==
    /\ Running /\ Len(rlog) < MaxLog
    /\ rb.tx # 0 /\ rb.i <= 1
    /\ rlog' = Append(rlog, commitLog(rb.tx))
    /\ txStack' = [txStack EXCEPT ![rb.tx] = <<>>]
    /\ lmTable' = ReleaseAll(rb.tx)
    /\ resources' = [resources EXCEPT ![rb.tx] = NoLocks]
    /\ transactions' = transactions \ {rb.tx}
    /\ rb' = NoRollback
    /\ rpc' = "running" /\ rLast' = rb.tx
    /\ UNCHANGED <<dbMem, dbDisk, snapshot, rec, editBuild, crashLog, crashes,
                   txPre>>

\* the pager writes the dirty pages to the files
RFlush ==
    /\ Running /\ dbDisk # dbMem
    /\ dbDisk' = dbMem
    /\ rpc' = "running" /\ rLast' = 0
    /\ UNCHANGED <<transactions, resources, lmTable, rlog, dbMem, snapshot,
                   txStack, rec, rb, editBuild, crashLog, crashes, txPre>>

\* RecoveryManager.Checkpoint up to the write of the checkpoint record: the
\* ids of the stacks, every table flushed, the record written
RCheckpoint ==
    /\ Running /\ Len(rlog) < MaxLog
    /\ dbDisk' = dbMem
    /\ rlog' = Append(rlog, checkpointLog({t \in Tx : txStack[t] # <<>>}))
    /\ rpc' = "checkpoint" /\ rLast' = 0
    /\ UNCHANGED <<transactions, resources, lmTable, dbMem, snapshot, txStack,
                   rec, rb, editBuild, crashLog, crashes, txPre>>

\* Delta: os.RemoveAll(recoveryFolder)
RDeltaRemove ==
    /\ rpc = "checkpoint"
    /\ snapshot' = [exists |-> FALSE, data |-> EmptyDB]
    /\ rpc' = "delta"
    /\ UNCHANGED <<transactions, resources, lmTable, rlog, dbMem, dbDisk,
                   txStack, rec, rb, editBuild, crashLog, crashes, txPre, rLast>>

\* Delta: copy.Copy(folder, recoveryFolder); Checkpoint returns
RDeltaCopy ==
    /\ rpc = "delta"
    /\ snapshot' = [exists |-> TRUE, data |-> dbDisk]
    /\ rpc' = "running"
    /\ UNCHANGED <<transactions, resources, lmTable, rlog, dbMem, dbDisk,
                   txStack, rec, rb, editBuild, crashLog, crashes, txPre, rLast>>

\* the process dies: what is in memory is lost, the files stay
RCrash ==
    /\ rpc # "crashed" /\ crashes < MaxCrash
    /\ rpc' = "crashed"
    /\ crashes' = crashes + 1
    /\ crashLog' = rlog
    /\ transactions' = {}
    /\ resources' = [t \in Tx |-> NoLocks]
    /\ lmTable' = [k \in LKeys |-> [t \in Tx |-> "none"]]
    /\ txStack' = [t \in Tx |-> <<>>]
    /\ dbMem' = EmptyDB
    /\ rec' = NoRecover /\ rb' = NoRollback
    /\ txPre' = [t \in Tx |-> NoPre] /\ rLast' = 0
    /\ UNCHANGED <<rlog, dbDisk, snapshot, editBuild>>

\* Prime: with both folders, the database folder is replaced by a copy of
\* the recovery folder; without a recovery folder it is opened as it is
Prime ==
    /\ rpc = "crashed"
    /\ IF snapshot.exists
       THEN dbDisk' = snapshot.data /\ dbMem' = snapshot.data
       ELSE dbMem' = dbDisk /\ UNCHANGED dbDisk
    /\ rpc' = "primed"
    /\ UNCHANGED <<transactions, resources, lmTable, rlog, snapshot, txStack,
                   rec, rb, editBuild, crashLog, crashes, txPre, rLast>>

\* Recover, up to the forward pass: the logs read, the undo set seeded with
\* the ids of the checkpoint record, Begin for each
RecoverStart ==
    /\ rpc = "primed"
    /\ IF rlog = <<>>
       THEN /\ rpc' = "recovered"
            /\ UNCHANGED <<transactions, rec>>
       ELSE LET cp == readLogs(rlog)
                ids == IF rlog[cp].type = "checkpoint" THEN rlog[cp].ids ELSE {}
            IN  /\ transactions' = ids
                /\ rec' = [len |-> Len(rlog), i |-> cp, undoSet |-> ids]
                /\ rpc' = "rec_fwd"
    /\ UNCHANGED <<resources, lmTable, rlog, dbMem, dbDisk, snapshot, txStack,
                   rb, editBuild, crashLog, crashes, txPre, rLast>>

\* the forward pass ends after the last record read at the start
FwdNext == IF rec.i + 1 > rec.len
           THEN [rec EXCEPT !.i = rec.len] ELSE [rec EXCEPT !.i = @ + 1]

FwdPc == IF rec.i + 1 > rec.len THEN "rec_bwd" ELSE "rec_fwd"

\* Recover, one record of the forward pass
RecoverFwd ==
    /\ rpc = "rec_fwd"
    /\ LET l == rlog[rec.i]
       IN  IF l.type = "start"
           THEN IF l.id \in transactions
                THEN /\ rpc' = "rec_failed"
                     /\ UNCHANGED <<transactions, resources, lmTable, dbMem, rec>>
                ELSE /\ transactions' = transactions \cup {l.id}
                     /\ resources' = [resources EXCEPT ![l.id] = NoLocks]
                     /\ rec' = [FwdNext EXCEPT !.undoSet = @ \cup {l.id}]
                     /\ rpc' = FwdPc
                     /\ UNCHANGED <<lmTable, dbMem>>
           ELSE IF l.type = "edit"
           THEN IF RedoFails(dbMem, l)
                THEN /\ rpc' = "rec_failed"
                     /\ UNCHANGED <<transactions, resources, lmTable, dbMem, rec>>
                ELSE /\ dbMem' = ApplyEdit(dbMem, l.action, l.key, l.newval)
                     /\ rec' = FwdNext
                     /\ rpc' = FwdPc
                     /\ UNCHANGED <<transactions, resources, lmTable>>
           ELSE IF l.type = "commit"
           THEN IF l.id \notin transactions
                THEN /\ rpc' = "rec_failed"
                     /\ rec' = [rec EXCEPT !.undoSet = @ \ {l.id}]
                     /\ UNCHANGED <<transactions, resources, lmTable, dbMem>>
                ELSE /\ transactions' = transactions \ {l.id}
                     /\ lmTable' = ReleaseAll(l.id)
                     /\ resources' = [resources EXCEPT ![l.id] = NoLocks]
                     /\ rec' = [FwdNext EXCEPT !.undoSet = @ \ {l.id}]
                     /\ rpc' = FwdPc
                     /\ UNCHANGED dbMem
           ELSE /\ rec' = FwdNext
                /\ rpc' = FwdPc
                /\ UNCHANGED <<transactions, resources, lmTable, dbMem>>
    /\ UNCHANGED <<rlog, dbDisk, snapshot, txStack, rb, editBuild, crashLog,
                   crashes, txPre, rLast>>

\* Recover, one record of the backward pass
RecoverBwd ==
    /\ rpc = "rec_bwd"
    /\ rec.undoSet # {} /\ rec.i >= 1
    /\ Len(rlog) < MaxLog
    /\ LET l == rlog[rec.i]
       IN  IF l.type = "start" /\ l.id \in rec.undoSet
           THEN /\ rlog' = Append(rlog, commitLog(l.id))
                /\ txStack' = [txStack EXCEPT ![l.id] = <<>>]
                /\ IF l.id \notin transactions
                   THEN /\ rpc' = "rec_failed"
                        /\ UNCHANGED <<transactions, resources, lmTable>>
                   ELSE /\ transactions' = transactions \ {l.id}
                        /\ lmTable' = ReleaseAll(l.id)
                        /\ resources' = [resources EXCEPT ![l.id] = NoLocks]
                        /\ rpc' = "rec_bwd"
                /\ rec' = [rec EXCEPT !.i = @ - 1, !.undoSet = @ \ {l.id}]
                /\ UNCHANGED dbMem
           ELSE IF l.type = "edit" /\ l.id \in rec.undoSet
           THEN /\ TxHandle(l.id, UndoAction(l), l.key, l.oldval)
                /\ rpc' = IF HandleFails(UndoAction(l), l.key)
                          THEN "rec_failed" ELSE "rec_bwd"
                /\ rec' = [rec EXCEPT !.i = @ - 1]
                /\ UNCHANGED transactions
           ELSE /\ rec' = [rec EXCEPT !.i = @ - 1]
                /\ rpc' = "rec_bwd"
                /\ UNCHANGED <<transactions, resources, lmTable, rlog, dbMem,
                               txStack>>
    /\ UNCHANGED <<dbDisk, snapshot, rb, editBuild, crashLog, crashes, txPre,
                   rLast>>

\* Recover returns nil: the undo set is empty or the first record is passed
RecoverDone ==
    /\ rpc = "rec_bwd"
    /\ (rec.undoSet = {} \/ rec.i < 1)
    /\ rpc' = "recovered"
    /\ rec' = NoRecover
    /\ UNCHANGED <<transactions, resources, lmTable, rlog, dbMem, dbDisk,
                   snapshot, txStack, rb, editBuild, crashLog, crashes, txPre,
                   rLast>>

RStartAny == \E t \in Tx : RStart(t)
REditAny == \E t \in Tx, a \in Actions, k \in LKeys, v \in Vals : REdit(t, a, k, v)
RCommitAny == \E t \in Tx : RCommit(t)
RRollbackStartAny == \E t \in Tx : RRollbackStart(t)

NextRec ==
    \/ RStartAny
    \/ REditAny
    \/ RCommitAny
    \/ RRollbackStartAny
    \/ RRollbackStep
    \/ RRollbackEnd
    \/ RFlush
    \/ RCheckpoint
    \/ RDeltaRemove
    \/ RDeltaCopy
    \/ RCrash
    \/ Prime
    \/ RecoverStart
    \/ RecoverFwd
    \/ RecoverBwd
    \/ RecoverDone

(***************************************************************************)
(* The logging calls of the recovery manager on a log file whose writes    *)
(* and syncs can fail.                                                     *)
(***************************************************************************)

MaxIOLog == 2

IOOutcomes == {"ok", "write error", "sync error"}

tableLog == [NoRecord EXCEPT !.type = "table"]

\* RecoveryManager.writeToBuffer: WriteString, then Sync; the error of the
\* first one that fails. A failed WriteString appends nothing.
writeToBuffer(log, l, io) ==
    [log |-> IF io = "write error" THEN log ELSE Append(log, l),
     err |-> io # "ok"]

\* RecoveryManager.Table: the result of writeToBuffer is assigned to _ and the
\* method returns nothing, so the caller sees no error.
RMTable(io) ==
    [rlog |-> writeToBuffer(rlog, tableLog, io).log, txStack |-> txStack, err |-> FALSE]

\* RecoveryManager.Start
RMStart(t, io) ==
    [rlog |-> writeToBuffer(rlog, startLog(t), io).log,
     txStack |-> [txStack EXCEPT ![t] = <<startLog(t)>>],
     err |-> FALSE]

\* RecoveryManager.Edit
RMEdit(t, l, io) ==
    [rlog |-> writeToBuffer(rlog, l, io).log,
     txStack |-> [txStack EXCEPT ![t] = EditStack(@, l)],
     err |-> FALSE]

\* RecoveryManager.Commit
RMCommit(t, io) ==
    [rlog |-> writeToBuffer(rlog, commitLog(t), io).log,
     txStack |-> [txStack EXCEPT ![t] = <<>>],
     err |-> FALSE]

\* RecoveryManager.Checkpoint, the log record
RMCheckpoint(io) ==
    [rlog |-> writeToBuffer(rlog, checkpointLog({t \in Tx : txStack[t] # <<>>}), io).log,
     txStack |-> txStack,
     err |-> FALSE]

InitLogIO == wLast = [op |-> "none", io |-> "ok", err |-> FALSE]

\* A logging call with its I/O outcome; r is what the method does.
Logged(op, r, io) ==
    /\ rpc = "running"
    /\ Len(rlog) < MaxIOLog
    /\ \A t \in Tx : Len(r.txStack[t]) <= MaxIOLog
    /\ rlog' = r.rlog
    /\ txStack' = r.txStack
    /\ wLast' = [op |-> op, io |-> io, err |-> r.err]
    /\ UNCHANGED <<dbMem, dbDisk, snapshot, rpc, rec, rb, editBuild, crashLog,
                   crashes, txPre, rLast>>

LTable == \E io \in IOOutcomes : Logged("Table", RMTable(io), io)

LStart == \E t \in Tx, io \in IOOutcomes : Logged("Start", RMStart(t, io), io)

LEdit ==
    \E t \in Tx, a \in Actions, k \in LKeys, io \in IOOutcomes :
        Logged("Edit", RMEdit(t, editLog(t, a, k, 0, 1), io), io)

LCommit == \E t \in Tx, io \in IOOutcomes : Logged("Commit", RMCommit(t, io), io)

LCheckpoint == \E io \in IOOutcomes : Logged("Checkpoint", RMCheckpoint(io), io)

NextLogIO ==
    \/ LTable
    \/ LStart
    \/ LEdit
    \/ LCommit
    \/ LCheckpoint

(***************************************************************************)
(* Pager: frames, the free, unpinned and pinned lists, the page table.     *)
(* A list is the sequence of the frames its links hold, head first.        *)
(* The model has no I/O errors.                                            *)
(***************************************************************************)

\* Link.PopSelf: the link of frame f leaves its list.
PopSelf(list, f) == SelectSeq(list, LAMBDA x : x # f)

\* List.PushTail
PushTail(list, f) == Append(list, f)

\* List.PeekHead / List.PeekTail (0: nil)
PeekHead(list) == IF list = <<>> THEN 0 ELSE Head(list)

PeekTail(list) == IF list = <<>> THEN 0 ELSE list[Len(list)]

\* NewPager: every frame is on the free list, with pagenum NOPAGE.
NewPager ==
    [frames |-> [f \in Frames |->
                    [pagenum |-> NOPAGE, pinCount |-> 0, dirty |-> FALSE, data |-> 0]],
     freeList |-> [i \in 1..NUMPAGES |-> i],
     unpinnedList |-> <<>>,
     pinnedList |-> <<>>,
     pageTable |-> [pn \in PNs |-> 0],
     nPages |-> 0,
     ptMtx |-> FALSE]

\* Pager.ReadPageFromDisk: the frame's bytes after Seek and Read; a read at
\* or past the end of the file returns io.EOF and leaves the buffer as it was.
ReadPageFromDisk(fl, page, pagenum) ==
    IF pagenum < fl.len THEN [page EXCEPT !.data = fl.data[pagenum]] ELSE page

\* File.WriteAt of one page; the file grows to hold it.
WriteAt(fl, pagenum, d) ==
    [len |-> IF pagenum + 1 > fl.len THEN pagenum + 1 ELSE fl.len,
     data |-> [fl.data EXCEPT ![pagenum] = d]]

\* Pager.NewPage(pagenum): the tail of the free list, else the head of the
\* unpinned list, gets the page number, goes to the tail of the pinned list
\* and into the page table. The error return leaves ptMtx locked.
NewPage(pg, pagenum) ==
    LET link == IF PeekTail(pg.freeList) # 0 THEN PeekTail(pg.freeList)
                ELSE PeekHead(pg.unpinnedList)
    IN  IF link = 0
        THEN [err |-> TRUE, page |-> 0, pager |-> [pg EXCEPT !.ptMtx = TRUE]]
        ELSE [err |-> FALSE, page |-> link,
              pager |-> [pg EXCEPT
                            !.freeList = PopSelf(@, link),
                            !.unpinnedList = PopSelf(@, link),
                            !.frames[link].pagenum = pagenum,
                            !.pinnedList = PushTail(@, link),
                            !.pageTable[pagenum] = link]]

\* Pager.GetPage(pagenum). A page in the page table has its pin count
\* incremented. Otherwise NewPage gives a frame, the page is read into it,
\* pinned, and nPages is incremented. When NewPage fails, GetPage reads into
\* the nil buffer of an empty Page: a nil dereference, the call panics.
GetPage(pg, fl, pagenum) ==
    IF pagenum > pg.nPages
    THEN [res |-> "invalid page number", page |-> 0, pager |-> pg]
    ELSE IF pg.pageTable[pagenum] # 0
    THEN LET f == pg.pageTable[pagenum]
         IN  [res |-> "ok", page |-> f,
              pager |-> [pg EXCEPT !.frames[f].pinCount = @ + 1]]
    ELSE LET r == NewPage(pg, pagenum)
         IN  IF r.err
             THEN [res |-> "panic", page |-> 0, pager |-> r.pager]
             ELSE [res |-> "ok", page |-> r.page,
                   pager |-> [r.pager EXCEPT
                                !.frames[r.page] =
                                    [ReadPageFromDisk(fl, @, pagenum) EXCEPT
                                        !.pinCount = @ + 1],
                                !.nPages = @ + 1]]

\* Page.Put: the pin count goes down by one; at zero the frame moves to the
\* tail of the unpinned list.
Put(pg, f) ==
    IF pg.frames[f].pinCount = 1
    THEN [pg EXCEPT !.frames[f].pinCount = 0,
                    !.pinnedList = PopSelf(@, f),
                    !.unpinnedList = PushTail(PopSelf(@, f), f)]
    ELSE [pg EXCEPT !.frames[f].pinCount = @ - 1]

\* Page.Update: the holder writes the page's bytes and marks it dirty.
PageUpdate(pg, f, d) == [pg EXCEPT !.frames[f].data = d, !.frames[f].dirty = TRUE]

\* Pager.FlushPage: a dirty page is written at its page number and is clean.
FlushPage(pg, fl, f) ==
    IF pg.frames[f].dirty
    THEN [pager |-> [pg EXCEPT !.frames[f].dirty = FALSE],
          file |-> WriteAt(fl, pg.frames[f].pagenum, pg.frames[f].data)]
    ELSE [pager |-> pg, file |-> fl]

RECURSIVE FlushFrom(_, _, _)
\* The loop of FlushAllPages over the entries of the page table from pn on.
\* (No two frames hold the same page number, so the order of the map's
\* iteration does not show in the result.)
FlushFrom(pg, fl, pn) ==
    IF pn > MaxPN THEN [pager |-> pg, file |-> fl]
    ELSE IF pg.pageTable[pn] = 0 THEN FlushFrom(pg, fl, pn + 1)
    ELSE LET r == FlushPage(pg, fl, pg.pageTable[pn])
         IN  FlushFrom(r.pager, r.file, pn + 1)

\* Pager.FlushAllPages
FlushAllPages(pg, fl) == FlushFrom(pg, fl, 0)

\* The lists and the page table of a pager.
Lists(pg) == <<pg.freeList, pg.unpinnedList, pg.pinnedList, pg.pageTable>>

\* A new pager opened on a new, empty file.
InitPager ==
    /\ pager = NewPager
    /\ file = [len |-> 0, data |-> [pn \in PNs |-> 0]]
    /\ pgExpect = [pn \in PNs |-> 0]
    /\ pLast = [op |-> "none", pagenum |-> NOPAGE, res |-> "ok", page |-> 0,
                cached |-> FALSE, noFrame |-> FALSE, kept |-> TRUE,
                evicted |-> NOPAGE, failed |-> {}]
    /\ pOps = 0

\* The process is alive: no call has panicked.
PagerRuns == pLast.res # "panic" /\ pOps < MaxPOps

\* A client calls GetPage(pagenum).
PGetPage(pagenum) ==
    /\ PagerRuns
    /\ pOps' = pOps + 1
    /\ LET r == GetPage(pager, file, pagenum)
           reused == r.res = "ok" /\ pager.pageTable[pagenum] = 0
       IN  /\ pager' = r.pager
           /\ pLast' = [op |-> "GetPage", pagenum |-> pagenum, res |-> r.res,
                        page |-> r.page,
                        cached |-> pager.pageTable[pagenum] # 0,
                        noFrame |-> pager.freeList = <<>> /\ pager.unpinnedList = <<>>,
                        kept |-> Lists(r.pager) = Lists(pager),
                        evicted |-> IF reused THEN pager.frames[r.page].pagenum
                                    ELSE NOPAGE,
                        failed |-> {}]
    /\ UNCHANGED <<file, pgExpect>>

\* A holder of the page in frame f releases it.
PPut(f) ==
    /\ PagerRuns
    /\ pager.frames[f].pinCount > 0
    /\ pOps' = pOps + 1
    /\ pager' = Put(pager, f)
    /\ pLast' = [pLast EXCEPT !.op = "Put", !.pagenum = pager.frames[f].pagenum,
                              !.res = "ok", !.page = f, !.evicted = NOPAGE,
                              !.failed = {}]
    /\ UNCHANGED <<file, pgExpect>>

\* A holder of the page in frame f writes d into it.
PUpdate(f, d) ==
    /\ PagerRuns
    /\ pager.frames[f].pinCount > 0
    /\ pOps' = pOps + 1
    /\ pager' = PageUpdate(pager, f, d)
    /\ pgExpect' = [pgExpect EXCEPT ![pager.frames[f].pagenum] = d]
    /\ pLast' = [pLast EXCEPT !.op = "Update", !.pagenum = pager.frames[f].pagenum,
                              !.res = "ok", !.page = f, !.evicted = NOPAGE,
                              !.failed = {}]
    /\ UNCHANGED file

\* A holder of the page in frame f calls FlushPage.
PFlushPage(f) ==
    /\ PagerRuns
    /\ pager.frames[f].pinCount > 0
    /\ pOps' = pOps + 1
    /\ LET r == FlushPage(pager, file, f)
       IN  pager' = r.pager /\ file' = r.file
    /\ pLast' = [pLast EXCEPT !.op = "FlushPage", !.pagenum = pager.frames[f].pagenum,
                              !.res = "ok", !.page = f, !.evicted = NOPAGE,
                              !.failed = {}]
    /\ UNCHANGED pgExpect

PFlushAllPages ==
    /\ PagerRuns
    /\ pOps' = pOps + 1
    /\ LET r == FlushAllPages(pager, file)
       IN  pager' = r.pager /\ file' = r.file
    /\ pLast' = [pLast EXCEPT !.op = "FlushAllPages", !.pagenum = NOPAGE,
                              !.res = "ok", !.page = 0, !.evicted = NOPAGE,
                              !.failed = {}]
    /\ UNCHANGED pgExpect

\* Pager.FlushPage when File.WriteAt fails: the result of WriteAt is not
\* looked at, the page is marked clean, nothing is returned.
FlushPageIOError(pg, fl, f) ==
    [pager |-> [pg EXCEPT !.frames[f].dirty = FALSE], file |-> fl]

RECURSIVE FlushFromIOError(_, _, _, _)
\* The loop of FlushAllPages when the writes of the frames in F fail.
FlushFromIOError(pg, fl, pn, F) ==
    IF pn > MaxPN THEN [pager |-> pg, file |-> fl]
    ELSE IF pg.pageTable[pn] = 0 THEN FlushFromIOError(pg, fl, pn + 1, F)
    ELSE LET f == pg.pageTable[pn]
             r == IF f \in F /\ pg.frames[f].dirty
                  THEN FlushPageIOError(pg, fl, f) ELSE FlushPage(pg, fl, f)
         IN  FlushFromIOError(r.pager, r.file, pn + 1, F)

\* The dirty frames that FlushAllPages writes.
DirtyInTable(pg) ==
    {f \in Frames : pg.frames[f].dirty /\ \E pn \in PNs : pg.pageTable[pn] = f}

\* A holder of the dirty page in frame f calls FlushPage and the write fails.
PFlushPageIOError(f) ==
    /\ PagerRuns
    /\ pager.frames[f].pinCount > 0
    /\ pager.frames[f].dirty
    /\ pOps' = pOps + 1
    /\ LET r == FlushPageIOError(pager, file, f)
       IN  pager' = r.pager /\ file' = r.file
    /\ pLast' = [pLast EXCEPT !.op = "FlushPage", !.pagenum = pager.frames[f].pagenum,
                              !.res = "ok", !.page = f, !.evicted = NOPAGE,
                              !.failed = {f}]
    /\ UNCHANGED pgExpect

\* FlushAllPages is called and the writes of the frames in F fail.
PFlushAllPagesIOError(F) ==
    /\ PagerRuns
    /\ F # {} /\ F \subseteq DirtyInTable(pager)
    /\ pOps' = pOps + 1
    /\ LET r == FlushFromIOError(pager, file, 0, F)
       IN  pager' = r.pager /\ file' = r.file
    /\ pLast' = [pLast EXCEPT !.op = "FlushAllPages", !.pagenum = NOPAGE,
                              !.res = "ok", !.page = 0, !.evicted = NOPAGE,
                              !.failed = F]
    /\ UNCHANGED pgExpect

PGetPageAny == \E pn \in PNs : PGetPage(pn)
PPutAny == \E f \in Frames : PPut(f)
PUpdateAny == \E f \in Frames, d \in Datas : PUpdate(f, d)
PFlushPageAny == \E f \in Frames : PFlushPage(f)

NextPager ==
    \/ PGetPageAny
    \/ PPutAny
    \/ PUpdateAny
    \/ PFlushPageAny
    \/ PFlushAllPages

\* The database is closed and opened again: Close flushes every page of the
\* page table and closes the file; NewPager makes a pager whose frames are
\* all free; Open sets nPages to the number of pages in the file.
PReopen ==
    /\ PagerRuns
    /\ pOps' = pOps + 1
    /\ LET r == FlushAllPages(pager, file)
       IN  /\ file' = r.file
           /\ pager' = [NewPager EXCEPT !.nPages = r.file.len]
    /\ pLast' = [pLast EXCEPT !.op = "Open", !.pagenum = NOPAGE,
                              !.res = "ok", !.page = 0, !.evicted = NOPAGE,
                              !.failed = {}]
    /\ UNCHANGED pgExpect

\* The pager with Close and Open; nBefore keeps nPages as it was before the step.
NextPagerOpen ==
    \/ PGetPageAny /\ nBefore' = pager.nPages
    \/ PPutAny /\ nBefore' = pager.nPages
    \/ PUpdateAny /\ nBefore' = pager.nPages
    \/ PFlushPageAny /\ nBefore' = pager.nPages
    \/ PFlushAllPages /\ nBefore' = pager.nPages
    \/ PReopen /\ nBefore' = pager.nPages

PFlushPageIOErrorAny == \E f \in Frames : PFlushPageIOError(f)
PFlushAllPagesIOErrorAny == \E F \in SUBSET Frames : PFlushAllPagesIOError(F)

\* The pager on a file whose writes can fail.
NextPagerIO ==
    \/ NextPager
    \/ PFlushPageIOErrorAny
    \/ PFlushAllPagesIOErrorAny

Init == InitHash /\ InitBTree /\ InitLock /\ InitRec /\ InitPager /\ InitLogIO
        /\ InitJoin /\ InitHashConc /\ InitBTreeConc /\ InitPins /\ InitProbes
        /\ nBefore = 0

SpecHash == Init /\ [][NextHash /\ UNCHANGED <<btreeVars, lockVars, recVars, pagerVars, ioVars, joinVars, hcVars, bcVars, pinVars, gjVars, poVars>>]_vars

SpecBTree == Init /\ [][NextBTree /\ UNCHANGED <<hashVars, lockVars, recVars, pagerVars, ioVars, joinVars, hcVars, bcVars, pinVars, gjVars, poVars>>]_vars

SpecLock == Init /\ [][NextLock /\ UNCHANGED <<hashVars, btreeVars, recVars, pagerVars, ioVars, joinVars, hcVars, bcVars, pinVars, gjVars, poVars>>]_vars

SpecHashConc ==
    Init /\ [][NextHashConc /\ UNCHANGED <<hExpect, hPure, hLast, hStatus, hOps, btreeVars, lockVars,
                                        recVars, pagerVars, ioVars, joinVars, bcVars, pinVars, gjVars, poVars>>]_vars

SpecBTreeConc ==
    Init /\ [][NextBTreeConc /\ UNCHANGED <<hashVars, lockVars, recVars, pagerVars, ioVars, joinVars,
                                         hcVars, pinVars, gjVars, poVars>>]_vars

SpecPins ==
    Init /\ [][NextPins /\ UNCHANGED <<hashVars, btreeVars, lockVars, recVars, pagerVars, ioVars,
                                    joinVars, hcVars, bcVars, gjVars, poVars>>]_vars

\* A goroutine that can take a step takes one: a select whose case is ready
\* completes, a goroutine that can return returns. Nobody has to read the
\* results channel and nobody has to cancel.
SpecProbes ==
    /\ Init
    /\ [][NextProbes /\ UNCHANGED <<hashVars, btreeVars, lockVars, recVars, pagerVars, ioVars,
                                   joinVars, hcVars, bcVars, pinVars, poVars>>]_vars
    /\ \A g \in Gs : WF_gjVars(GjStep(g))

SpecGraph == Init /\ [][NextGraph /\ UNCHANGED <<hashVars, btreeVars, recVars, pagerVars, ioVars, joinVars, hcVars, bcVars, pinVars, gjVars, poVars>>]_vars

SpecPager == Init /\ [][NextPager /\ UNCHANGED <<hashVars, btreeVars, lockVars, recVars, ioVars, joinVars, hcVars, bcVars, pinVars, gjVars, poVars>>]_vars

SpecPagerOpen ==
    Init /\ [][NextPagerOpen /\ UNCHANGED <<hashVars, btreeVars, lockVars, recVars, ioVars,
                                         joinVars, hcVars, bcVars, pinVars, gjVars>>]_vars

SpecPagerIO ==
    Init /\ [][NextPagerIO /\ UNCHANGED <<hashVars, btreeVars, lockVars, recVars, ioVars, joinVars, hcVars, bcVars, pinVars, gjVars, poVars>>]_vars

SpecJoin ==
    Init /\ [][NextJoin /\ UNCHANGED <<hashVars, btreeVars, lockVars, recVars, pagerVars,
                                    ioVars, hcVars, bcVars, pinVars, gjVars, poVars>>]_vars

SpecLogIO ==
    Init /\ [][NextLogIO /\ UNCHANGED <<hashVars, btreeVars, lockVars, pagerVars, joinVars, hcVars, bcVars, pinVars, gjVars, poVars>>]_vars

SpecRec ==
    Init /\ [][NextRec /\ UNCHANGED <<hashVars, btreeVars, edges, pc, req, myEdges, hist,
                                      pagerVars, ioVars, joinVars, hcVars, bcVars, pinVars, gjVars, poVars>>]_vars

(***************************************************************************)
(* Claims about the B+-tree index.                                         *)
(***************************************************************************)

RECURSIVE Reach(_, _)
\* the page numbers of the subtree below pn
Reach(pages, pn) ==
    LET node == pages[pn + 1]
    IN  IF node.type = "leaf" THEN {pn}
        ELSE {pn} \cup UNION {Reach(pages, getPNAt(node, i)) : i \in 0..node.numKeys}

\* the keys stored in the leaves of the subtree below pn
SubtreeKeys(pages, pn) ==
    UNION {{getKeyAt(pages[q + 1], i) : i \in 0..(pages[q + 1].numKeys - 1)} :
                q \in {r \in Reach(pages, pn) : pages[r + 1].type = "leaf"}}

RECURSIVE LeafDepths(_, _, _)
\* the depths at which the leaves of the subtree below pn lie
LeafDepths(pages, pn, d) ==
    LET node == pages[pn + 1]
    IN  IF node.type = "leaf" THEN {d}
        ELSE UNION {LeafDepths(pages, getPNAt(node, i), d + 1) : i \in 0..node.numKeys}

\* the entries the tree was told to hold with lo <= key < hi, ascending
RECURSIVE ExpectedRange(_, _)
ExpectedRange(lo, hi) ==
    IF lo >= hi \/ lo > MaxBKey THEN <<>>
    ELSE IF lo \in BKeys /\ bExpect[lo] # 0
         THEN <<(<<lo, bExpect[lo]>>)>> \o ExpectedRange(lo + 1, hi)
         ELSE ExpectedRange(lo + 1, hi)

\* C3: after inserts of pairwise distinct keys, get(k) returns the value
\* inserted with k for every inserted key k, across leaf splits, internal
\* splits and splits that reach the root.
C3_InsertThenGet ==
    bPure =>
        \A k \in BKeys :
            bExpect[k] # 0 => BTreeFind(bt, k) = [found |-> TRUE, value |-> bExpect[k]]

\* C3 witness: only distinct inserts so far, and the last one split a leaf,
\* an internal node and the root.
C3_Witness ==
    /\ bPure
    /\ bLast.op = "insert" /\ ~bLast.err
    /\ bLast.leafSplit /\ bLast.internalSplit /\ bLast.rootSplit
    /\ \A k \in 1..3 : bExpect[k] # 0

\* C8: TableFindRange(startKey, endKey) returns without error exactly the
\* stored entries with startKey <= key < endKey in ascending key order
\* (empty when startKey > endKey); stated for every tree that holds at least
\* one entry.
C8_RangeExact ==
    (\E k \in BKeys : bExpect[k] # 0) =>
        \A startKey \in BKeys, endKey \in 1..(MaxBKey + 1) :
            TableFindRange(bt, startKey, endKey) =
                [err |-> FALSE, entries |-> ExpectedRange(startKey, endKey)]

C11_SplitByCapacity ==
    /\ \A pn \in Reach(bt.pages, bt.rootPN) :
            LET node == bt.pages[pn + 1]
            IN  IF node.type = "leaf" THEN node.numKeys <= ENTRIES_PER_LEAF_NODE
                ELSE node.numKeys <= KEYS_PER_INTERNAL_NODE
    /\ \A n \in bLast.splitAt : n >= KEYS_PER_INTERNAL_NODE

\* The result of get(k) the operations so far call for.
ExpectedGet(k) ==
    IF bExpect[k] = 0 THEN [found |-> FALSE, value |-> 0]
    ELSE [found |-> TRUE, value |-> bExpect[k]]

\* C13: insert(k, v, update = false) of a key that is stored, and
\* insert(k, v, update = true) of a key that is not stored, each return an
\* error and leave the tree as it was: no page is written, added or split.
C13_ErrorLeavesTree ==
    \A k \in BKeys, v \in Vals :
        IF bExpect[k] # 0
        THEN BTreeInsert(bt, k, v, FALSE) = [err |-> TRUE, t |-> bt]
        ELSE BTreeInsert(bt, k, v, TRUE) = [err |-> TRUE, t |-> bt]

\* C13 witness: the last operation was an insert that returned an error, on a
\* tree whose root is an internal node.
C13_Witness ==
    /\ bLast.op = "insert"
    /\ bLast.err
    /\ bt.pages[bt.rootPN + 1].type = "internal"

\* C14: delete(k) of a stored key makes get(k) report not found, leaves every
\* other key with its value and changes no page but k's leaf (no node is
\* merged, removed or rebalanced, the root stays); delete of a key that is
\* not stored leaves the tree as it was.
C14_DeleteRemovesOnlyKey ==
    /\ \A k \in BKeys : BTreeFind(bt, k) = ExpectedGet(k)
    /\ \A k \in BKeys :
            LET t2 == BTreeDelete(bt, k)
                leaf == keyToNodeEntry(bt.pages, bt.rootPN, k).pn
            IN  IF bExpect[k] = 0
                THEN t2 = bt
                ELSE /\ ~BTreeFind(t2, k).found
                     /\ \A j \in BKeys \ {k} : BTreeFind(t2, j) = ExpectedGet(j)
                     /\ t2.rootPN = bt.rootPN
                     /\ Len(t2.pages) = Len(bt.pages)
                     /\ \A i \in DOMAIN bt.pages :
                            i # leaf + 1 => t2.pages[i] = bt.pages[i]
                     /\ t2.pages[leaf + 1].numKeys = bt.pages[leaf + 1].numKeys - 1

\* C14 witness: the last operation deleted the only key of a leaf below an
\* internal root; the empty leaf is still a child while other keys remain.
C14_Witness ==
    /\ bLast.op = "delete"
    /\ bt.pages[bt.rootPN + 1].type = "internal"
    /\ LET leaf == keyToNodeEntry(bt.pages, bt.rootPN, bLast.key).pn
       IN  /\ leaf \in Reach(bt.pages, bt.rootPN)
           /\ bt.pages[leaf + 1].numKeys = 0
    /\ \E k \in BKeys : bExpect[k] # 0

\* Redo of an insert or update record is idempotent on a B+-tree index.
RedoIdempotentBTree ==
    \A k \in BKeys, v \in Vals, a \in {"insert", "update"} :
        LET r1 == RedoBTree(bt, a, k, v)
        IN  /\ ~r1.err
            /\ BTreeFind(r1.t, k) = [found |-> TRUE, value |-> v]
            /\ RedoBTree(r1.t, a, k, v) = r1

(***************************************************************************)
(* Claims about the extendible-hash index.                                 *)
(***************************************************************************)

\* C2: after Inserts of pairwise distinct keys that all returned success,
\* Find(k) returns the value inserted with k, for every inserted key k (also
\* for the key whose Insert met a full bucket and went through Split).
C2_InsertThenFind ==
    (hStatus = "ok" /\ hPure) =>
        \A k \in HKeys :
            hExpect[k] # 0 => Find(table, k) = [found |-> TRUE, value |-> hExpect[k]]

StoredCount(e) ==
    Cardinality({pc2 \in {table.buckets[i] + 1 : i \in DOMAIN table.buckets}
                          \X (1..BUCKETSIZE) :
                    /\ pc2[2] <= Len(table.pages[pc2[1]].cells)
                    /\ table.pages[pc2[1]].cells[pc2[2]] = e})

\* the number of cells of the bucket pages in the directory whose key is k
KeyCount(k) ==
    Cardinality({pc2 \in {table.buckets[i] + 1 : i \in DOMAIN table.buckets}
                          \X (1..BUCKETSIZE) :
                    /\ pc2[2] <= Len(table.pages[pc2[1]].cells)
                    /\ table.pages[pc2[1]].cells[pc2[2]][1] = k})

\* C12: no key is stored in more than one cell of the hash index (an Insert
\* of a key that is present is rejected and changes nothing).
C12_NoDuplicateKey ==
    hStatus = "ok" => \A k \in HKeys : KeyCount(k) <= 1

\* C15: Select returns every stored entry exactly once, also when several
\* directory slots point at the same bucket.
C15_SelectOnce ==
    hStatus = "ok" =>
        \A k \in HKeys, v \in Vals :
            Cardinality({j \in DOMAIN Select(table) : Select(table)[j] = <<k, v>>})
                = StoredCount(<<k, v>>)

\* The cells of the bucket pages in the directory of t whose key is k.
KeyCells(t, k) ==
    {c \in {t.buckets[i] + 1 : i \in DOMAIN t.buckets} \X (1..BUCKETSIZE) :
        /\ c[2] <= Len(t.pages[c[1]].cells)
        /\ t.pages[c[1]].cells[c[2]][1] = k}

\* Insert(t, k, v) ends: it does not meet a full bucket that can not be split.
InsertEnds(t, k) ==
    ~(InsertOverflows(t, k) /\ SplitDiverges(GetBucket(t, Hasher(k, t.depth))))

\* C25: Redo of an insert or update record is idempotent on a hash index: on
\* an index without duplicate keys, whether or not it reflects the edit, Redo
\* returns no error and leaves the key with exactly one entry, whose value is
\* the record's newval; a second Redo of the record changes nothing.
C25_RedoIdempotentHash ==
    (hStatus = "ok" /\ \A j \in HKeys : Cardinality(KeyCells(table, j)) <= 1) =>
        \A k \in HKeys, v \in Vals, a \in {"insert", "update"} :
            InsertEnds(table, k) =>
                LET r1 == RedoHash(table, a, k, v)
                IN  /\ ~r1.err
                    /\ Cardinality(KeyCells(r1.t, k)) = 1
                    /\ \A c \in KeyCells(r1.t, k) : r1.t.pages[c[1]].cells[c[2]][2] = v
                    /\ InsertEnds(r1.t, k) => RedoHash(r1.t, a, k, v) = r1

\* C33: every Insert on the hash index ends: Split recurses until the cells
\* of the full bucket disperse or stops with an error, also when all cells of
\* the bucket have the same hash or the same key.
C33_InsertTerminates == hLast.op = "insert" => hStatus # "diverged"

C35_ReadSeesStoredKeys == (bcR.op # "none" /\ bcR.stored) => bcR.found

RECURSIVE SortedFrom(_, _)
\* the entries key -> value kept in exp, with keys from k on, by ascending key
SortedFrom(exp, k) ==
    IF k > MaxBKey THEN <<>>
    ELSE (IF exp[k] # 0 THEN <<(<<k, exp[k]>>)>> ELSE <<>>) \o SortedFrom(exp, k + 1)

RECURSIVE ChainFrom(_, _)
\* the leaves on the sibling chain that starts at leaf pn
ChainFrom(pages, pn) ==
    IF pn = NOPAGE THEN <<>>
    ELSE <<pn>> \o ChainFrom(pages, pages[pn + 1].rightSiblingPN)

\* C38: IsEnd of a cursor, after TableStart and any number of StepForward
\* calls, is true only on a leaf without a right sibling.
C38_IsEndOnlyAtTableEnd ==
    \A k \in 0..MaxSteps :
        LET c == StepN(bt, TableStart(bt), k)
        IN  c.isEnd => bt.pages[c.curNode + 1].rightSiblingPN = NOPAGE

\* C39: the loop of buildHashIndex over a cursor from TableStart yields every
\* stored entry once, by ascending key; the sibling chain from the leftmost
\* leaf holds every leaf of the tree once and ends at NOPAGE.
C39_ScanYieldsAll ==
    /\ buildLoop(bt, TableStart(bt), <<>>) = SortedFrom(bExpect, 1)
    /\ LET chain == ChainFrom(bt.pages, LeftmostLeaf(bt.pages, bt.rootPN))
       IN  /\ {chain[i] : i \in DOMAIN chain}
                = {q \in Reach(bt.pages, bt.rootPN) : bt.pages[q + 1].type = "leaf"}
           /\ \A i, j \in DOMAIN chain : i # j => chain[i] # chain[j]

C39_Witness ==
    /\ Len(ChainFrom(bt.pages, LeftmostLeaf(bt.pages, bt.rootPN))) >= 3
    /\ \E q \in DOMAIN bt.pages : bt.pages[q].type = "leaf" /\ bt.pages[q].numKeys = 0
    /\ Len(buildLoop(bt, TableStart(bt), <<>>)) >= 2
    /\ bLast.op = "delete"

GjRunning(g) == gjProbe[g].pc = "run"

\* C37: once the context is cancelled every probe goroutine that was started
\* eventually returns; one that found the results channel full and unread
\* returns the context's error.
C37_ProbesReturn ==
    /\ \A g \in Gs : (gjCtx = "cancelled" /\ GjRunning(g)) ~> (gjProbe[g].pc = "done")
    /\ [](\A g \in Gs : gjProbe[g].blocked => gjProbe[g].res = "ctx")

\* C37 as stated: once the context is cancelled every probe goroutine that
\* runs eventually returns the context's error.
C37_ProbesReturnCtxErr ==
    \A g \in Gs : (gjCtx = "cancelled" /\ GjRunning(g)) ~>
                      (gjProbe[g].pc = "done" /\ gjProbe[g].res = "ctx")

C37_Witness ==
    \E g \in Gs : /\ gjProbe[g].pc = "done" /\ gjProbe[g].res = "ctx"
                  /\ gjProbe[g].blocked /\ gjProbe[g].left > 0
                  /\ gjChan = ResultsCap /\ gjCtx = "cancelled"

\* C40: GetPage of a page that exists, one whose number is below nPages,
\* leaves nPages as it was, whether the page is cached or read from disk.
C40_GetPageKeepsNPages ==
    (pLast.op = "GetPage" /\ pLast.res = "ok" /\ pLast.pagenum < nBefore) =>
        pager.nPages = nBefore

(***************************************************************************)
(* Claims about the transaction manager.                                   *)
(***************************************************************************)

\* t holds k: Lock has returned success and neither Unlock nor Commit followed
Holds(t, k) == t \in transactions /\ resources[t][k] # "none"

\* C4: two distinct transactions never hold the same resource at the same
\* time when one of them holds it in W_LOCK mode.
C4_NoConflictingHolders ==
    \A t \in Tx, u \in Tx, k \in LKeys :
        (t # u /\ Holds(t, k) /\ Holds(u, k))
            => (resources[t][k] = "R" /\ resources[u][k] = "R")

\* C4 witness: a transaction holds a key in W mode while another one is
\* blocked in the lock manager on the same key
C4_Witness ==
    \E t \in Tx, u \in Tx, k \in LKeys :
        /\ t # u
        /\ Holds(t, k) /\ resources[t][k] = "W"
        /\ u \in transactions /\ pc[u] = "wait" /\ req[u].key = k

\* t is blocked inside the lock manager on a key that u holds there in a
\* conflicting mode
BlockedOn(t, u) ==
    /\ pc[t] = "wait"
    /\ t # u
    /\ lmTable[req[t].key][u] # "none"
    /\ (lmTable[req[t].key][u] = "W" \/ req[t].mode = "W")

\* C5: lock acquisition is deadlock-free: there is never a set of
\* transactions each of which is blocked in Lock on a resource held by
\* another one of the set.
C5_NoDeadlock ==
    \A S \in (SUBSET Tx) \ {{}} :
        ~ (\A t \in S : \E u \in S : BlockedOn(t, u))

\* a's history: W on k1 granted, then W on k2 requested while holding k1
CrossRequest(a, k1, k2) ==
    /\ Len(hist[a]) >= 2
    /\ hist[a][1].key = k1 /\ hist[a][1].mode = "W" /\ hist[a][1].res = "granted"
    /\ hist[a][2].key = k2 /\ hist[a][2].mode = "W"
    /\ hist[a][2].holding[k1] = "W"

\* C6: when A holds key 1 in W, B holds key 2 in W, A requests 2 and B
\* requests 1, exactly one of the two requests fails with the deadlock error
\* and the other one is granted.
C6_ExactlyOneFails ==
    \A a \in Tx, b \in Tx :
        (a # b /\ CrossRequest(a, 1, 2) /\ CrossRequest(b, 2, 1))
            => \/ hist[a][2].res = "deadlock" /\ hist[b][2].res = "granted"
               \/ hist[a][2].res = "granted" /\ hist[b][2].res = "deadlock"

\* The waits-for graph has the edge from t to u.
HasEdge(t, u) == \E i \in DOMAIN edges : edges[i] = <<t, u>>

\* C20: the waits-for graph is in sync with the pending waits: while t is
\* blocked in the lock manager on a key, the graph has the edge from t to
\* every transaction that holds the key in a conflicting mode; once a Lock
\* call has returned the graph has none of its edges, so the graph is empty
\* whenever no Lock call is in progress.
C20_GraphInSync ==
    /\ \A t \in Tx, u \in Tx : BlockedOn(t, u) => HasEdge(t, u)
    /\ \A t \in Tx, u \in Tx : pc[t] = "idle" => ~HasEdge(t, u)
    /\ (\A t \in Tx : pc[t] = "idle") => edges = <<>>

\* C21: a Lock in W mode by a transaction that holds the resource in R mode
\* is an upgrade request: it goes through conflict discovery, cycle detection
\* and the lock manager, so it returns granted (the resource then recorded in
\* W mode) or the deadlock error, never an early return.
C21_UpgradeReenters ==
    \A t \in Tx : \A i \in DOMAIN hist[t] :
        (hist[t][i].mode = "W" /\ hist[t][i].holding[hist[t][i].key] = "R")
            => hist[t][i].res \in {"granted", "deadlock"}

C23_UnlockByOwnEntry ==
    \A t \in transactions, k \in LKeys, m \in Modes :
        pc[t] = "idle" =>
            \A o \in Unlock(t, k, m) :
                /\ resources[t][k] = m =>
                        /\ o.res = "ok"
                        /\ o.resources = [resources EXCEPT ![t][k] = "none"]
                        /\ o.lmTable = [lmTable EXCEPT ![k][t] = "none"]
                /\ resources[t][k] \notin {"none", m} => o.res = "lock type mismatch"
                /\ resources[t][k] = "none" => o.res # "ok"
                /\ o.res # "ok" => o.resources = resources /\ o.lmTable = lmTable

\* C24: Begin of an id that is in the transaction table and Commit of an id
\* that is not in it each return an error and leave the transaction table,
\* every lock set and the lock manager unchanged.
C24_BeginCommitErrors ==
    \A t \in Tx :
        pc[t] = "idle" =>
            IF t \in transactions
            THEN Begin(t) = [err |-> TRUE, transactions |-> transactions,
                             resources |-> resources]
            ELSE Commit(t) = [err |-> TRUE, transactions |-> transactions,
                              resources |-> resources, lmTable |-> lmTable]

\* C24 witness: one transaction holds a key, so that a second Begin of its id
\* is refused, while the other id has committed and can not commit again.
C24_Witness ==
    \E t \in Tx, u \in Tx, k \in LKeys :
        /\ pc[t] = "idle" /\ Holds(t, k) /\ Begin(t).err
        /\ pc[u] = "idle" /\ u \notin transactions /\ hist[u] # <<>> /\ Commit(u).err

RECURSIVE Closure(_)
\* the transitive closure of a relation on the vertices
Closure(R) ==
    LET R2 == R \cup {p \in GNodes \X GNodes :
                        \E b \in GNodes : <<p[1], b>> \in R /\ <<b, p[2]>> \in R}
    IN  IF R2 = R THEN R ELSE Closure(R2)

\* the edges of the list form a directed cycle (a self-loop is one)
HasCycle(g) ==
    \E n \in GNodes : <<n, n>> \in Closure({g[i] : i \in DOMAIN g})

\* C31: DetectCycle returns true exactly when the waits-for edges contain a
\* directed cycle, a self-loop included, whatever the edges and their copies.
C31_DetectCycleExact == DetectCycle(edges) <=> HasCycle(edges)

\* C31 witness: a cycle through three transactions and no shorter one, with
\* a repeated edge, is detected.
C31_Witness ==
    /\ DetectCycle(edges)
    /\ \A i \in DOMAIN edges : edges[i][1] # edges[i][2]
    /\ \A i, j \in DOMAIN edges : edges[i] # <<edges[j][2], edges[j][1]>>
    /\ \E i, j \in DOMAIN edges : i # j /\ edges[i] = edges[j]


(***************************************************************************)
(* Claims about the recovery manager.                                      *)
(***************************************************************************)

\* the edit at position i of the log belongs to a transaction with a commit
\* record: a commit record of its id follows it
HasCommit(logs, i) ==
    \E j \in (i + 1)..Len(logs) : logs[j].type = "commit" /\ logs[j].id = logs[i].id

RECURSIVE ReplayCommitted(_, _, _)
\* the table after the edits of the committed transactions, in log order
ReplayCommitted(logs, i, d) ==
    IF i > Len(logs) THEN d
    ELSE ReplayCommitted(logs, i + 1,
            IF logs[i].type = "edit" /\ HasCommit(logs, i)
            THEN ApplyEdit(d, logs[i].action, logs[i].key, logs[i].newval)
            ELSE d)

\* C1: after a crash at any point, Prime followed by Recover ends with the
\* table holding every edit of every transaction that had a commit record in
\* the log at the crash, and no edit of a transaction that had none.
C1_RecoverCommittedOnly ==
    (editBuild = "stored" /\ rpc \in {"recovered", "rec_failed"}) =>
        /\ rpc = "recovered"
        /\ dbMem = ReplayCommitted(crashLog, 1, EmptyDB)

\* C7: when Rollback returns, every key the transaction edited has the
\* value it had before the transaction, the log ends with the commit record
\* of the transaction, its stack is discarded and it is committed in the
\* transaction manager.
C7_RollbackRestores ==
    rLast # 0 =>
        /\ \A k \in txPre[rLast].keys : dbMem[k] = txPre[rLast].pre[k]
        /\ rlog[Len(rlog)] = commitLog(rLast)
        /\ txStack[rLast] = <<>>
        /\ rLast \notin transactions


\* C26: in the log no edit record of a transaction, compensation records of
\* Rollback and Recover included, follows a commit record of that transaction
\* unless a start record of the same id lies between the two.
C26_EditsBeforeCommit ==
    \A i \in DOMAIN rlog, j \in DOMAIN rlog :
        (/\ i < j
         /\ rlog[i].type = "commit"
         /\ rlog[j].type = "edit"
         /\ rlog[j].id = rlog[i].id)
            => \E n \in (i + 1)..(j - 1) :
                    rlog[n].type = "start" /\ rlog[n].id = rlog[i].id

\* C26 witness: the log ends with an edit record of a transaction, the
\* compensation record that undoes it and the transaction's commit record,
\* written by a Rollback that has returned or by a Recover after a crash.
C26_Witness ==
    \E t \in Tx :
        /\ Len(rlog) >= 4
        /\ rlog[Len(rlog)] = commitLog(t)
        /\ rlog[Len(rlog) - 1].type = "edit" /\ rlog[Len(rlog) - 1].id = t
        /\ rlog[Len(rlog) - 2].type = "edit" /\ rlog[Len(rlog) - 2].id = t
        /\ rlog[Len(rlog) - 1].action = UndoAction(rlog[Len(rlog) - 2])
        /\ rLast = t \/ (rpc = "recovered" /\ crashes > 0)

\* C28: when appending or syncing a log record fails, the logging call
\* (Table, Start, Edit, Commit, Checkpoint) returns the failure to its caller.
C28_LogErrorPropagated == wLast.io # "ok" => wLast.err

\* the position of the last start record of t in the log, 0 when there is none
LastStart(logs, t) ==
    LET S == {i \in DOMAIN logs : logs[i].type = "start" /\ logs[i].id = t}
    IN  IF S = {} THEN 0 ELSE CHOOSE i \in S : \A j \in S : j <= i

\* t has logged a start record and no commit record since
ActiveInLog(logs, t) ==
    /\ LastStart(logs, t) # 0
    /\ \A j \in (LastStart(logs, t) + 1)..Len(logs) :
            ~(logs[j].type = "commit" /\ logs[j].id = t)

\* the start record of t followed by the edit records t has logged since
StackInLog(logs, t) ==
    IF ~ActiveInLog(logs, t) THEN <<>>
    ELSE <<logs[LastStart(logs, t)]>>
         \o SelectSeq(SubSeq(logs, LastStart(logs, t) + 1, Len(logs)),
                      LAMBDA l : l.type = "edit" /\ l.id = t)

\* C32: while the process serves clients, txStack holds for exactly the
\* transactions with a start record and no commit record since, the start
\* record followed by every edit record they logged, in log order; a
\* checkpoint record just written names exactly those transactions.
C32_StackMirrorsLog ==
    Running =>
        /\ \A t \in Tx : txStack[t] = StackInLog(rlog, t)
        /\ (rlog # <<>> /\ rlog[Len(rlog)].type = "checkpoint") =>
                rlog[Len(rlog)].ids = {t \in Tx : ActiveInLog(rlog, t)}

\* Recover's forward pass stands at a start record whose transaction is
\* already begun: the Begin it calls returns "transaction already began" and
\* Recover returns that error.
DuplicateBeginInRecover ==
    /\ rpc = "rec_fwd"
    /\ rlog[rec.i].type = "start"
    /\ rlog[rec.i].id \in transactions

\* No log the program writes brings Recover to a duplicate Begin.
NoDuplicateBeginInRecover == ~DuplicateBeginInRecover

(***************************************************************************)
(* Claims about the hash join.                                             *)
(***************************************************************************)

\* the entries of a table
RowsOf(tbl) == {<<k, tbl[k]>> : k \in {x \in JKeys : tbl[x] # 0}}

\* the pairs of a left and a right entry with equal join values
Matching(onLeftKey, onRightKey) ==
    {<<l, r>> \in RowsOf(jLeft) \X RowsOf(jRight) :
        (IF onLeftKey THEN l[1] ELSE l[2]) = (IF onRightKey THEN r[1] ELSE r[2])}

\* C27: the pairs emitted by a Join that returns are exactly the pairs of a
\* left and a right entry with equal join values, each emitted once.
C27_JoinExact ==
    jRes.status = "ok" => jRes.out = SetToBag(Matching(jRes.onLeftKey, jRes.onRightKey))

(***************************************************************************)
(* Claims about the pager.                                                 *)
(***************************************************************************)

\* The frames a list holds.
InList(list) == {list[i] : i \in DOMAIN list}

\* How many places of the three lists hold frame f.
Places(f) ==
    Cardinality({i \in DOMAIN pager.freeList : pager.freeList[i] = f})
    + Cardinality({i \in DOMAIN pager.unpinnedList : pager.unpinnedList[i] = f})
    + Cardinality({i \in DOMAIN pager.pinnedList : pager.pinnedList[i] = f})

\* The content of page pn in the file (zero past the end of the file).
OnDisk(pn) == IF pn < file.len THEN file.data[pn] ELSE 0

\* C16: each frame is in exactly one of the free, unpinned and pinned lists;
\* a loaded page with pin count zero is in the unpinned list, a page with pin
\* count above zero is in the pinned list (GetPage of a cached, unpinned page
\* moves it there); the page table has as many entries as the pinned and
\* unpinned lists have frames.
C16_ListsMatchPins ==
    /\ \A f \in Frames : Places(f) = 1
    /\ \A f \in Frames :
            pager.frames[f].pagenum # NOPAGE /\ pager.frames[f].pinCount = 0
                => f \in InList(pager.unpinnedList)
    /\ \A f \in Frames :
            pager.frames[f].pinCount > 0 => f \in InList(pager.pinnedList)
    /\ Cardinality({pn \in PNs : pager.pageTable[pn] # 0})
            = Len(pager.pinnedList) + Len(pager.unpinnedList)

\* C17: a dirty page is never discarded without being flushed: a page that is
\* in no frame has in the file the content its holders last gave it.
C17_DirtyFlushedBeforeReuse ==
    \A pn \in PNs :
        (\A f \in Frames : pager.frames[f].pagenum # pn) => OnDisk(pn) = pgExpect[pn]

\* C18: the page table holds exactly the loaded frames: every entry pn maps
\* to a frame whose pagenum is pn, every loaded frame has its entry, the page
\* number a GetPage has just evicted has no entry, and GetPage(pn) returns a
\* frame that holds page pn.
C18_PageTableExact ==
    /\ \A pn \in PNs :
            pager.pageTable[pn] # 0 => pager.frames[pager.pageTable[pn]].pagenum = pn
    /\ \A f \in Frames :
            pager.frames[f].pagenum # NOPAGE
                => pager.pageTable[pager.frames[f].pagenum] = f
    /\ pLast.evicted # NOPAGE => pager.pageTable[pLast.evicted] = 0
    /\ pLast.op = "GetPage" /\ pLast.res = "ok"
            => pager.frames[pLast.page].pagenum = pLast.pagenum

\* C19: GetPage of a valid page number that is not cached, called with the
\* free list and the unpinned list both empty, returns the OutOfPages error
\* and leaves the page table and the three lists as they were.
C19_OutOfPages ==
    (/\ pLast.op = "GetPage"
     /\ pLast.res # "invalid page number"
     /\ ~pLast.cached
     /\ pLast.noFrame)
        => pLast.res = "OutOfPages" /\ pLast.kept


\* C29: when the write of a dirty page fails in FlushPage (also inside
\* FlushAllPages) the caller gets the error and the page stays dirty.
C29_FlushErrorKeepsDirty ==
    pLast.failed # {} =>
        /\ pLast.res # "ok"
        /\ \A f \in pLast.failed : pager.frames[f].dirty

=============================================================================
